---- MODULE Spec2Model ----
(***************************************************************************)
(* A model of the slide/image pipeline of MagicSlide:                      *)
(*   - the HTML slide extractor and the query generator                    *)
(*     (lib/slide-image-matcher),                                          *)
(*   - the match-images route,                                             *)
(*   - the Pixabay / Wikimedia batch search routes with their in-memory    *)
(*     rate limiters,                                                      *)
(*   - the two sanitizeGeneratedHtml variants of the chat route.           *)
(*   - the chat stream transform, the validation of every endpoint, the    *)
(*     limiter under concurrent requests, the chat route's decision to     *)
(*     search images, searchWikimediaImages,                               *)
(*   - the home page, the Pixabay search UI and the font size commands.    *)
(*                                                                         *)
(* Text is modelled at the level of tokens: an HTML document is a sequence *)
(* of tags and words, a string such as a title or a query is the sequence  *)
(* of its words.  Each component has its own specification (SpecExtract,   *)
(* SpecMatch, ...); the variables of the other components stay idle.       *)
(***************************************************************************)
EXTENDS Integers, Sequences, FiniteSets, TLC

VARIABLES
    html,       \* extractor: the document handed to extractSlidesFromHTML
    slides,     \* extractor: the SlideContent[] it returned
    xpc,        \* extractor: "input" before the call, "done" after it
    maxQueriesPerSlide, \* match-images: field of the request body
    maxImagesPerSlide,  \* match-images: field of the request body
    mpc,        \* match-images: where the handler stands
    batchReq,   \* match-images: the body it sent to /api/pixabay/batch
    batchResp,  \* match-images: the batch route's answer
    matchResp,  \* match-images: the handler's own response
    requestLog, \* rate limiter: the module-level log of the route in use
    now,        \* rate limiter: Date.now()
    endpoint,   \* adapters: the route the client talks to
    reqSize,    \* rate limiter: the number of queries in each of the client's requests
    accepted,   \* rate limiter: times of the client's requests answered 200 in the window
    rateLast,   \* rate limiter: what happened to the client's latest request
    bpc,        \* batch route: where the handler stands
    settled,    \* batch route: the entry of each search that has settled
    outOfOrder, \* batch route: some search settled before one with a smaller index
    genHtml,    \* sanitizer: the generated HTML handed to the first run
    validImageUrls, \* sanitizer: the list of valid image URLs
    sanVariant, \* sanitizer: 1 for the flagging variant, 2 for the replacing one
    sanRuns,    \* sanitizer: the output and the replacements of each run so far
    qSlide,     \* query generator: the SlideContent it is called with
    qOut,       \* query generator: the ImageSearchQuery[] it returned
    qpc,        \* query generator: "call" before the call, "returned" after it
    streamIn,   \* chat stream: every chunk of the model's text stream
    source,     \* chat stream: the chunks not yet piped into the transform
    writableQueue, \* chat stream: the chunks written and not yet transformed
    readable,   \* chat stream: the chunks enqueued on the readable side so far
    epReq,      \* endpoints: the request one route handler is called with
    epResp,     \* endpoints: the response of that handler
    inflight,   \* concurrent requests: how many handlers wait at each await
    recorded,   \* concurrent requests: every timestamp ever pushed for the client
    rejected,   \* concurrent requests: how many requests the limiter has rejected
    chatReq,    \* chat route: the topic and settings of the request, and what upstream will do
    chatOut,    \* chat route: what the handler did about images
    wikiParams, \* Wikimedia search: the WikimediaSearchParams of the call
    wikiCalls,  \* Wikimedia search: the upstream calls made so far, in order
    wikiImages, \* Wikimedia search: how many images the local variable images holds
    wikiPc,     \* Wikimedia search: the method tried next, or how the call ended
    chatInput,  \* home page: whether the prompt box holds text ("text") or not ("")
    apiKey,     \* home page: whether an API key is stored ("key") or not ("")
    isLoading,  \* home page: useObject's isLoading
    isPreviewLoading, \* home page: the preview-loading flag handed to SideView
    currentTab, \* home page: "code" or "artifact"
    messages,   \* home page: the number of chat messages
    isSettingsOpen, \* home page: whether the settings dialog is open
    lastEnd,    \* home page: how the latest submitted generation ended, "none" while it runs
    lastToast,  \* home page: the latest toast shown
    pagerQuery, \* image search UI: the text of the search box
    totalHits,  \* image search UI: how many images the provider has for the query
    page,       \* image search UI: the page state
    pagerResults, \* image search UI: the page numbers whose hits make up results, in order
    hasMore,    \* image search UI: whether Load More is shown
    pagerCall,  \* image search UI: the call of searchImages that awaits its response
    requested,  \* image search UI: the pages requested since the latest new search
    fontSize,   \* font size commands: the fontSize attribute of the selection
    fontBefore, \* font size commands: the attribute before the latest command
    fontCmd     \* font size commands: the latest command

extractVars == <<html, slides, xpc>>
matchVars   == <<maxQueriesPerSlide, maxImagesPerSlide, mpc, batchReq, batchResp, matchResp>>
rateVars    == <<requestLog, now>>
rateObs     == <<endpoint, reqSize, accepted, rateLast>>
fanVars     == <<bpc, settled, outOfOrder>>
sanVars     == <<genHtml, validImageUrls, sanVariant, sanRuns>>
queryVars   == <<qSlide, qOut, qpc>>
streamVars  == <<streamIn, source, writableQueue, readable>>
endpointVars == <<epReq, epResp>>
\* The variables of the specifications of one handler or one component.
concVars    == <<inflight, recorded, rejected>>
chatVars    == <<chatReq, chatOut>>
wikiVars    == <<wikiParams, wikiCalls, wikiImages, wikiPc>>
homeVars    == <<chatInput, apiKey, isLoading, isPreviewLoading, currentTab, messages,
                 isSettingsOpen, lastEnd, lastToast>>
pagerVars   == <<pagerQuery, totalHits, page, pagerResults, hasMore, pagerCall, requested>>
fontVars    == <<fontSize, fontBefore, fontCmd>>
lateVars    == <<chatVars, wikiVars, homeVars, pagerVars, fontVars>>
auxVars     == <<endpointVars, concVars, lateVars>>
coreVars    == <<extractVars, matchVars, rateVars, rateObs, fanVars, sanVars, queryVars,
                 streamVars>>
vars == <<html, slides, xpc, maxQueriesPerSlide, maxImagesPerSlide, mpc, batchReq,
          batchResp, matchResp, requestLog, now, endpoint, reqSize, accepted, rateLast,
          bpc, settled, outOfOrder, genHtml, validImageUrls, sanVariant, sanRuns,
          qSlide, qOut, qpc, streamIn, source, writableQueue, readable,
          epReq, epResp, inflight, recorded, rejected, lateVars>>

----------------------------------------------------------------------------
(* Generic helpers on sequences.                                           *)

RECURSIVE Concat(_)
Concat(ss) ==
    IF ss = <<>> THEN <<>> ELSE Head(ss) \o Concat(Tail(ss))

Range(s) == {s[i] : i \in 1..Len(s)}

\* The sequences over S of length 0..n.
SeqsUpTo(S, n) == UNION {[1..k -> S] : k \in 0..n}

Min(a, b) == IF a <= b THEN a ELSE b
Max(a, b) == IF a >= b THEN a ELSE b

\* The least index i >= from with P-token s[i] \in T, or 0 when there is none.
FirstIn(s, T, from) ==
    LET hits == {i \in from..Len(s) : s[i] \in T}
    IN  IF hits = {} THEN 0 ELSE CHOOSE i \in hits : \A j \in hits : i <= j

----------------------------------------------------------------------------
(* HTML tokens.                                                            *)

SecOpen   == "<section>"
SecClose  == "</section>"
H13Open   == "<h2>"      \* stands for an opening h1, h2 or h3 tag
H13Close  == "</h2>"
H46Open   == "<h4>"      \* stands for an opening h4, h5 or h6 tag
H46Close  == "</h4>"
Tags      == {SecOpen, SecClose, H13Open, H13Close, H46Open, H46Close}

IsTag(t) == t \in Tags

\* s.replace(/<[^>]*>/g, ...) followed by whitespace collapsing: the words left.
StripTags(s) == SelectSeq(s, LAMBDA t : ~IsTag(t))

----------------------------------------------------------------------------
(* extractSlidesFromHTML (lib/slide-image-matcher).                        *)

\* slideContent.match(/<h[1-3][^>]*>(.*?)<\/h[1-3]>/): <<open, close>> positions of
\* the first h1-h3 element at or after `from`, <<0, 0>> when there is none.
HeadingMatch(s, from) ==
    LET o == FirstIn(s, {H13Open}, from)
        c == IF o = 0 THEN 0 ELSE FirstIn(s, {H13Close}, o + 1)
    IN  IF c = 0 THEN <<0, 0>> ELSE <<o, c>>

\* slideContent.replace(/<h[1-3][^>]*>.*?<\/h[1-3]>/g, ''): every h1-h3 element removed.
RECURSIVE RemoveHeadings(_)
RemoveHeadings(s) ==
    LET m == HeadingMatch(s, 1)
    IN  IF m[1] = 0 THEN s
        ELSE SubSeq(s, 1, m[1] - 1) \o RemoveHeadings(SubSeq(s, m[2] + 1, Len(s)))

\* `Slide ${index + 1}`
DefaultTitle(index) == <<"Slide", ToString(index + 1)>>

SlideTitle(slideContent, index) ==
    LET m == HeadingMatch(slideContent, 1)
    IN  IF m[1] = 0 THEN DefaultTitle(index)
        ELSE StripTags(SubSeq(slideContent, m[1] + 1, m[2] - 1))

SlideText(slideContent) == StripTags(RemoveHeadings(slideContent))

\* content.toLowerCase().includes('conclusion' | 'summary' | 'thank you')
HasConclusionKeyword(content) ==
    \/ \E i \in 1..Len(content) : content[i] \in {"conclusion", "summary"}
    \/ \E i \in 1..(Len(content) - 1) : content[i] = "thank" /\ content[i + 1] = "you"

SlideType(content, index) ==
    IF index = 0 THEN "cover"
    ELSE IF HasConclusionKeyword(content) THEN "conclusion"
    ELSE "content"

MakeSlide(slideContent, index) ==
    [ title   |-> SlideTitle(slideContent, index),
      content |-> SlideText(slideContent),
      index   |-> index,
      type    |-> SlideType(SlideText(slideContent), index) ]

\* The exec loop of /<section[^>]*>([\s\S]*?)<\/section>/g from position `from`:
\* the first opening tag, the lazily matched first closing tag after it.
RECURSIVE ExtractFrom(_, _, _)
ExtractFrom(doc, from, index) ==
    LET o == FirstIn(doc, {SecOpen}, from)
        c == IF o = 0 THEN 0 ELSE FirstIn(doc, {SecClose}, o + 1)
    IN  IF c = 0 THEN <<>>
        ELSE <<MakeSlide(SubSeq(doc, o + 1, c - 1), index)>>
                 \o ExtractFrom(doc, c + 1, index + 1)

extractSlidesFromHTML(doc) == ExtractFrom(doc, 1, 0)

----------------------------------------------------------------------------
(* generateQueriesForSlide (lib/slide-image-matcher).  A string is the     *)
(* sequence of its whitespace-separated words.                             *)

stopWords ==
    {"a", "an", "the", "and", "or", "but", "in", "on", "at", "to", "for", "with",
     "by", "about", "as", "of"}

\* word.toLowerCase(), on the vocabulary of the model ("Slide" is its only
\* capitalised word).
Lower(w) == IF w = "Slide" THEN "slide" ELSE w

\* word.replace(/[^\w]/g, ''), on the vocabulary of the model.
StripNonWord(w) ==
    CASE w = "power." -> "power"
      [] w = "a.b"    -> "ab"
      [] OTHER        -> w

\* Canonical array-index keys: Object.entries lists them first, ascending.
IntegerKeys == {"1999", "2024"}
IntegerKeyValue(w) == IF w = "1999" THEN 1999 ELSE 2024

MapSeq(s, Op(_)) == [i \in 1..Len(s) |-> Op(s[i])]

\* words.filter(len > 2, not a stop word).map(strip).filter(len > 2)
KeyTerms(title, content) ==
    LET words    == MapSeq(title \o content, Lower)
        kept     == SelectSeq(words, LAMBDA w : Len(w) > 2 /\ w \notin stopWords)
        stripped == MapSeq(kept, StripNonWord)
    IN  SelectSeq(stripped, LAMBDA w : Len(w) > 2)

Count(x, s) == Cardinality({i \in 1..Len(s) : s[i] = x})

\* The distinct elements of s in the order of their first occurrence.
RECURSIVE Distinct(_)
Distinct(s) ==
    IF s = <<>> THEN <<>>
    ELSE <<Head(s)>> \o Distinct(SelectSeq(Tail(s), LAMBDA x : x # Head(s)))

\* The elements of the set of integer keys S, ascending.
RECURSIVE AscendingKeys(_)
AscendingKeys(S) ==
    IF S = {} THEN <<>>
    ELSE LET m == CHOOSE x \in S :
                      \A y \in S : IntegerKeyValue(x) <= IntegerKeyValue(y)
         IN  <<m>> \o AscendingKeys(S \ {m})

\* The key order of Object.entries(termFrequency): integer-like keys first,
\* ascending, then the other keys in insertion order.
EntryOrder(keyTerms) ==
    LET d == Distinct(keyTerms)
    IN  AscendingKeys(Range(d) \cap IntegerKeys)
            \o SelectSeq(d, LAMBDA w : w \notin IntegerKeys)

\* A faulty ranking that leaves the candidates in the order of the results.
Unsorted(s) == s

\* s.sort((a, b) => b.score - a.score): a stable sort, descending, of records
\* with a `score` field.
RECURSIVE SortDesc(_)
SortDesc(s) ==
    IF s = <<>> THEN <<>>
    ELSE LET best == CHOOSE i \in 1..Len(s) :
                         /\ \A j \in 1..Len(s) : s[j].score <= s[i].score
                         /\ \A j \in 1..(i - 1) : s[j].score < s[i].score
         IN  <<s[best]>>
                 \o SortDesc(SubSeq(s, 1, best - 1) \o SubSeq(s, best + 1, Len(s)))

\* Object.entries(termFrequency).sort((a, b) => b[1] - a[1]).map(([term]) => term)
SortedTerms(title, content) ==
    LET keyTerms == KeyTerms(title, content)
        entries  == MapSeq(EntryOrder(keyTerms),
                           LAMBDA t : [term |-> t, score |-> Count(t, keyTerms)])
    IN  MapSeq(SortDesc(entries), LAMBDA e : e.term)

\* An ImageSearchQuery; minWidth = 0 / minHeight = 0 stand for an absent field.
Query(q, imageType, orientation, editorsChoice, minWidth, minHeight) ==
    [ q |-> q, imageType |-> imageType, orientation |-> orientation,
      editorsChoice |-> editorsChoice, minWidth |-> minWidth, minHeight |-> minHeight ]

\* A faulty generator that builds queries from the ranked terms only.
TermQueriesOnly(slide) ==
    LET terms == SortedTerms(slide.title, slide.content)
    IN  IF Len(terms) >= 2
        THEN <<Query(<<terms[1], terms[2]>>, "photo", "horizontal", FALSE, 0, 0)>>
        ELSE <<>>

generateQueriesForSlide(slide) ==
    LET title == slide.title
        terms == SortedTerms(slide.title, slide.content)
    IN  IF slide.type = "cover" \/ slide.index = 0 THEN
            <<Query(title \o <<"concept">>, "photo", "horizontal", TRUE, 1920, 1080)>>
            \o (IF Len(terms) >= 2
                THEN <<Query(<<terms[1], terms[2], "professional">>,
                             "photo", "horizontal", TRUE, 0, 0)>>
                ELSE <<>>)
        ELSE IF slide.type = "conclusion" \/ slide.index = -1 THEN
            << Query(title \o <<"summary">>, "photo", "horizontal", FALSE, 0, 0),
               Query(title \o <<"conclusion", "concept">>,
                     "illustration", "horizontal", FALSE, 0, 0) >>
        ELSE
            (IF Len(terms) >= 2
             THEN <<Query(<<terms[1], terms[2]>>, "photo", "horizontal", FALSE, 0, 0)>>
             ELSE <<>>)
            \o (IF Len(terms) >= 3
                THEN <<Query(<<terms[1], terms[3]>>,
                             "illustration", "horizontal", FALSE, 0, 0)>>
                ELSE <<>>)
            \o <<Query(title, "all", "all", FALSE, 0, 0)>>

\* A faulty filter that keeps every query: what the merge would send without
\* its duplicate check.
KeepEveryQuery(queries) == queries

\* queries.filter((query, index, self) => index === self.findIndex(q => q.q === query.q))
UniqueByQ(queries) ==
    SelectSeq([i \in 1..Len(queries) |-> [at |-> i, query |-> queries[i]]],
              LAMBDA e : \A j \in 1..(e.at - 1) : queries[j].q # e.query.q)

DedupeQueries(queries) ==
    MapSeq(UniqueByQ(queries), LAMBDA e : e.query)

\* slides.flatMap(f)
FlatMap(s, Op(_)) == Concat(MapSeq(s, Op))

generateQueriesForPresentation(doc) ==
    DedupeQueries(FlatMap(extractSlidesFromHTML(doc), generateQueriesForSlide))

----------------------------------------------------------------------------
(* scoreImageForSlide and matchImagesToSlides (lib/slide-image-matcher).   *)
(* Scores are kept in thousandths, so that likes / 100 and                 *)
(* downloads / 1000 stay integers.                                         *)

\* text.includes(part) on word sequences: part occurs as a contiguous run of
\* words of text.  The empty string is included in every string.
Includes(text, part) ==
    \/ part = <<>>
    \/ \E i \in 1..(Len(text) - Len(part) + 1) :
           SubSeq(text, i, i + Len(part) - 1) = part

\* image.tags.toLowerCase().split(',').map(tag => tag.trim()).  image.tags is
\* modelled as the sequence of its comma-separated tags; the empty tag string
\* splits into one empty tag.
ImageTags(tags) == IF tags = <<>> THEN << <<>> >> ELSE tags

\* image.tags.toLowerCase().includes(query.toLowerCase()): the tag string holds
\* the tags joined by ", ", so a query can only occur inside one tag.
TagStringIncludes(tags, query) ==
    \/ query = <<>>
    \/ \E i \in 1..Len(tags) : Includes(tags[i], query)

RECURSIVE SumSeq(_)
SumSeq(s) == IF s = <<>> THEN 0 ELSE Head(s) + SumSeq(Tail(s))

scoreImageForSlide(image, slide, query) ==
    LET combinedText == MapSeq(slide.title \o slide.content, Lower)
        imageTags    == ImageTags(image.tags)
    IN    Min(image.likes * 10, 10000)
        + Min(image.downloads, 5000)
        + (IF image.imageWidth >= 1920 /\ image.imageHeight >= 1080 THEN 5000
           ELSE IF image.imageWidth >= 1280 /\ image.imageHeight >= 720 THEN 3000
           ELSE 0)
        + (IF slide.type = "cover" /\ image.imageWidth > image.imageHeight
           THEN 5000 ELSE 0)
        + SumSeq(MapSeq(imageTags,
                        LAMBDA tag : IF Includes(combinedText, tag) THEN 2000 ELSE 0))
        + (IF TagStringIncludes(image.tags, MapSeq(query, Lower)) THEN 3000 ELSE 0)

\* s.slice(0, end) of JavaScript: a negative end counts from the back.
JsSlice0(s, end) ==
    LET e == IF end < 0 THEN (IF Len(s) + end < 0 THEN 0 ELSE Len(s) + end)
             ELSE Min(end, Len(s))
    IN  SubSeq(s, 1, e)

\* A batch entry is {query, result} on success and {query, error} on failure:
\* hasResult tells the two apart, hits is result.hits.
\* imageResults.flatMap(result => result.result.hits.map(hit => ({hit, query})))
AllImages(imageResults) ==
    FlatMap(imageResults,
            LAMBDA r : MapSeq(r.hits, LAMBDA h : [hit |-> h, query |-> r.query]))

\* result.result.hits of an entry without `result` throws a TypeError (the
\* callback runs once per slide).
MatchThrows(slideList, imageResults) ==
    /\ slideList # <<>>
    /\ \E i \in 1..Len(imageResults) : ~imageResults[i].hasResult

\* allImages.map(({hit, query}) => ({hit, query, score: scoreImageForSlide(...)}))
ScoredImages(slide, imageResults) ==
    MapSeq(AllImages(imageResults),
           LAMBDA e : [hit |-> e.hit, query |-> e.query,
                       score |-> scoreImageForSlide(e.hit, slide, e.query)])

\* scoredImages.sort((a, b) => b.score - a.score).slice(0, 5)
TopImages(slide, imageResults) ==
    JsSlice0(SortDesc(ScoredImages(slide, imageResults)), 5)

MatchSlide(slide, imageResults) ==
    LET topImages == TopImages(slide, imageResults)
    IN  [ title |-> slide.title, content |-> slide.content,
          index |-> slide.index, type |-> slide.type,
          suggestedImages |-> MapSeq(topImages, LAMBDA e : e.hit),
          searchQueries   |-> Distinct(MapSeq(topImages, LAMBDA e : e.query)) ]

matchImagesToSlides(slideList, imageResults) ==
    MapSeq(slideList, LAMBDA slide : MatchSlide(slide, imageResults))

----------------------------------------------------------------------------
(* The in-memory rate limiters.  requestLog maps the client identifiers    *)
(* that have an entry to their logged timestamps (milliseconds).           *)

RATE_LIMIT == 100
RATE_WINDOW == 60000

\* requestLog[ip].filter(timestamp => now - timestamp < RATE_WINDOW)
Fresh(stamps, t) == SelectSeq(stamps, LAMBDA ts : t - ts < RATE_WINDOW)

\* cleanupRequestLog of the two Pixabay routes: every identifier's list is
\* filtered and an identifier left with no timestamp is deleted.
cleanupRequestLog(log, t) ==
    LET kept == {ip \in DOMAIN log : Fresh(log[ip], t) # <<>>}
    IN  [ip \in kept |-> Fresh(log[ip], t)]

\* if (!requestLog[ip]) requestLog[ip] = []
EnsureEntry(log, ip) ==
    IF ip \in DOMAIN log THEN log
    ELSE [i \in DOMAIN log \cup {ip} |-> IF i = ip THEN <<>> ELSE log[i]]

Repeat(x, n) == [i \in 1..n |-> x]

\* A faulty batch limiter that counts the request as one but logs every query.
isRateLimitedPerRequest(log, ip, count, t) ==
    LET l == EnsureEntry(cleanupRequestLog(log, t), ip)
    IN  IF Len(l[ip]) + 1 > RATE_LIMIT
        THEN [limited |-> TRUE, log |-> l]
        ELSE [limited |-> FALSE,
              log |-> [l EXCEPT ![ip] = l[ip] \o Repeat(t, count)]]

\* isRateLimited(ip, count) of the Pixabay batch route: one timestamp per query.
\* The result is the verdict and the log the call leaves behind.
isRateLimitedBatch(log, ip, count, t) ==
    LET l == EnsureEntry(cleanupRequestLog(log, t), ip)
    IN  IF Len(l[ip]) + count > RATE_LIMIT
        THEN [limited |-> TRUE, log |-> l]
        ELSE [limited |-> FALSE,
              log |-> [l EXCEPT ![ip] = l[ip] \o Repeat(t, count)]]

\* A faulty limiter that lets the request after RATE_LIMIT through.
isRateLimitedOffByOne(log, ip, t) ==
    LET l == EnsureEntry(cleanupRequestLog(log, t), ip)
    IN  IF Len(l[ip]) > RATE_LIMIT
        THEN [limited |-> TRUE, log |-> l]
        ELSE [limited |-> FALSE, log |-> [l EXCEPT ![ip] = Append(l[ip], t)]]

\* isRateLimited(ip) of the Pixabay single-search route.
isRateLimitedSingle(log, ip, t) ==
    LET l == EnsureEntry(cleanupRequestLog(log, t), ip)
    IN  IF Len(l[ip]) >= RATE_LIMIT
        THEN [limited |-> TRUE, log |-> l]
        ELSE [limited |-> FALSE, log |-> [l EXCEPT ![ip] = Append(l[ip], t)]]

\* isRateLimited(ip) of the Wikimedia batch route: only the caller's list is filtered.
isRateLimitedWikimedia(log, ip, t) ==
    LET e == EnsureEntry(log, ip)
        l == [e EXCEPT ![ip] = Fresh(e[ip], t)]
    IN  IF Len(l[ip]) >= RATE_LIMIT
        THEN [limited |-> TRUE, log |-> l]
        ELSE [limited |-> FALSE, log |-> [l EXCEPT ![ip] = Append(l[ip], t)]]

----------------------------------------------------------------------------
(* The batch search routes (POST /api/pixabay/batch, /api/wikimedia/batch).*)
(* A request body is the sequence of its queries; outcome[i] tells how the *)
(* i-th upstream search ends: [ok |-> TRUE, hits |-> ...] or [ok |-> FALSE].*)

BATCH_LIMIT == 10

\* searchPixabayImages(...).then(result => ({query, result}))
\*                         .catch(error => ({query, error: error.message}))
BatchEntry(query, outcome) ==
    IF outcome.ok
    THEN [query |-> query.q, hasResult |-> TRUE,  hits |-> outcome.hits]
    ELSE [query |-> query.q, hasResult |-> FALSE, hits |-> <<>>]

\* The queries the Pixabay route searches: none when the body is rejected.
\* (!queries || queries.length === 0 -> 400; queries.length > 10 -> 400)
PixabayBatchRejects(queries) == Len(queries) = 0 \/ Len(queries) > BATCH_LIMIT

\* The Wikimedia route: an empty body is rejected, a long one is cut:
\* body.queries.slice(0, 10)
WikimediaBatchRejects(queries) == Len(queries) = 0
WikimediaBatchQueries(queries) == JsSlice0(queries, BATCH_LIMIT)

\* A faulty gathering that hands the entries back last first.
Reverse(entries) == [i \in 1..Len(entries) |-> entries[Len(entries) + 1 - i]]

\* await Promise.all(searchPromises): the entries in the order of the promises.
PromiseAll(entries) == entries

BatchResponse(status, results) == [status |-> status, results |-> results]

\* The Pixabay batch handler up to its fan-out: the status it has settled on
\* (200 when it goes on to search), the queries it searches and the log it leaves.
PixabayBatchAdmit(queries, log, ip, t) ==
    IF PixabayBatchRejects(queries)
    THEN [status |-> 400, searched |-> <<>>, log |-> log]
    ELSE LET rl == isRateLimitedBatch(log, ip, Len(queries), t)
         IN  IF rl.limited
             THEN [status |-> 429, searched |-> <<>>, log |-> rl.log]
             ELSE [status |-> 200, searched |-> queries, log |-> rl.log]

\* The Wikimedia batch handler up to its fan-out: the limiter runs before the
\* body is read.
WikimediaBatchAdmit(queries, log, ip, t) ==
    LET rl == isRateLimitedWikimedia(log, ip, t)
    IN  IF rl.limited
        THEN [status |-> 429, searched |-> <<>>, log |-> rl.log]
        ELSE IF WikimediaBatchRejects(queries)
        THEN [status |-> 400, searched |-> <<>>, log |-> rl.log]
        ELSE [status |-> 200, searched |-> WikimediaBatchQueries(queries), log |-> rl.log]

\* A whole batch handler, given its fan-in decision and how each search ends.
BatchAnswer(a, outcome) ==
    IF a.status # 200
    THEN [resp |-> BatchResponse(a.status, <<>>), log |-> a.log]
    ELSE [resp |-> BatchResponse(200,
                      PromiseAll([i \in 1..Len(a.searched) |->
                                     BatchEntry(a.searched[i], outcome[i])])),
          log |-> a.log]

PixabayBatchPOST(queries, outcome, log, ip, t) ==
    BatchAnswer(PixabayBatchAdmit(queries, log, ip, t), outcome)

WikimediaBatchPOST(queries, outcome, log, ip, t) ==
    BatchAnswer(WikimediaBatchAdmit(queries, log, ip, t), outcome)

\* The whole Pixabay single-search handler (GET /api/pixabay?q=...): q is the
\* query string, <<>> when the parameter is missing; a failed search is a 500.
PixabaySingleGET(q, outcome, log, ip, t) ==
    LET rl == isRateLimitedSingle(log, ip, t)
    IN  IF rl.limited
        THEN [resp |-> BatchResponse(429, <<>>), log |-> rl.log]
        ELSE IF q = <<>>
        THEN [resp |-> BatchResponse(400, <<>>), log |-> rl.log]
        ELSE IF ~outcome.ok
        THEN [resp |-> BatchResponse(500, <<>>), log |-> rl.log]
        ELSE [resp |-> BatchResponse(200, outcome.hits), log |-> rl.log]

----------------------------------------------------------------------------
(* Documents: a presentation body is a row of at most MaxSections          *)
(* top-level elements taken from ElementLib.                               *)

MaxSections == 4

HeadedSection   == <<SecOpen, H13Open, "solar", H13Close, "energy", "power", SecClose>>
WindSection     == <<SecOpen, H13Open, "wind", H13Close, "turbine", "blade", SecClose>>
SmallHeading    == <<SecOpen, H46Open, "hydro", H46Close, "dam", "river", SecClose>>
SummarySection  == <<SecOpen, H13Open, "results", H13Close, "summary", "wind", SecClose>>
TitledSummary   == <<SecOpen, H13Open, "summary", H13Close, "wind", "blade", SecClose>>
VerticalStack   == <<SecOpen, SecOpen, "solar", SecClose, SecOpen, "wind", SecClose, SecClose>>
LooseText       == <<"power">>

ElementLib ==
    {HeadedSection, WindSection, SmallHeading, SummarySection, TitledSummary,
     VerticalStack, LooseText}

Documents(lib, n) == {Concat(es) : es \in SeqsUpTo(lib, n)}

\* Nesting depth after each token; WellNested: never negative, zero at the end.
RECURSIVE DepthAfter(_, _)
DepthAfter(doc, i) ==
    IF i = 0 THEN 0
    ELSE DepthAfter(doc, i - 1)
           + (IF doc[i] = SecOpen THEN 1 ELSE IF doc[i] = SecClose THEN -1 ELSE 0)

WellNested(doc) ==
    /\ \A i \in 1..Len(doc) : DepthAfter(doc, i) >= 0
    /\ DepthAfter(doc, Len(doc)) = 0

\* The positions of the opening tags of the top-level sections, in document order.
TopLevelOpens(doc) ==
    {i \in 1..Len(doc) : doc[i] = SecOpen /\ DepthAfter(doc, i) = 1}

\* The matching closing tag of the section opened at o.
ClosingOf(doc, o) ==
    CHOOSE c \in (o + 1)..Len(doc) :
        /\ doc[c] = SecClose
        /\ DepthAfter(doc, c) = DepthAfter(doc, o) - 1
        /\ \A d \in (o + 1)..(c - 1) : DepthAfter(doc, d) >= DepthAfter(doc, o)

----------------------------------------------------------------------------
(* Idle values: what a component's variables hold in the specification of *)
(* another component.                                                      *)

NoResponse == [status |-> 0]
EmptyLog == [ip \in {} |-> <<>>]

ExtractIdle == slides = <<>> /\ xpc = "idle"
MatchIdle ==
    /\ maxQueriesPerSlide = 3 /\ maxImagesPerSlide = 5 /\ mpc = "idle"
    /\ batchReq = <<>> /\ batchResp = NoResponse /\ matchResp = NoResponse
RateIdle ==
    /\ requestLog = EmptyLog /\ now = 0
    /\ endpoint = "none" /\ reqSize = 0 /\ accepted = <<>> /\ rateLast = NoResponse
FanIdle == bpc = "idle" /\ settled = <<>> /\ outOfOrder = FALSE
SanIdle == genHtml = <<>> /\ validImageUrls = <<>> /\ sanVariant = 0 /\ sanRuns = <<>>
NoSlide == [index |-> 0, title |-> <<>>, content |-> <<>>, type |-> "none"]
QueryIdle == qSlide = NoSlide /\ qOut = <<>> /\ qpc = "idle"
StreamIdle ==
    streamIn = <<>> /\ source = <<>> /\ writableQueue = <<>> /\ readable = <<>>
NoRequest == [endpoint |-> "none"]
EndpointIdle == epReq = NoRequest /\ epResp = NoResponse
NoneInFlight == [body |-> 0, search |-> 0]
ConcIdle == inflight = NoneInFlight /\ recorded = <<>> /\ rejected = 0
ChatIdle == chatReq = NoRequest /\ chatOut = NoResponse
WikiIdle == wikiParams = NoRequest /\ wikiCalls = <<>> /\ wikiImages = 0 /\ wikiPc = "idle"
HomeIdle ==
    /\ chatInput = "" /\ apiKey = "" /\ isLoading = FALSE /\ isPreviewLoading = FALSE
    /\ currentTab = "code" /\ messages = 0 /\ isSettingsOpen = FALSE
    /\ lastEnd = "none" /\ lastToast = "none"
NoCall == [reset |-> FALSE, page |-> 0]
PagerIdle ==
    /\ pagerQuery = "" /\ totalHits = 0 /\ page = 1 /\ pagerResults = <<>>
    /\ hasMore = FALSE /\ pagerCall = NoCall /\ requested = <<>>
NoFontSize == [n |-> 0, unit |-> ""]
FontIdle == fontSize = NoFontSize /\ fontBefore = NoFontSize /\ fontCmd = "none"
LateIdle == ChatIdle /\ WikiIdle /\ HomeIdle /\ PagerIdle /\ FontIdle
AuxIdle == EndpointIdle /\ ConcIdle /\ LateIdle
CoreIdle ==
    /\ html = <<>> /\ ExtractIdle /\ MatchIdle /\ RateIdle /\ FanIdle
    /\ SanIdle /\ QueryIdle /\ StreamIdle

----------------------------------------------------------------------------
(* The extractor as a state machine: one call on one document.             *)

ExtractInit ==
    /\ html \in Documents(ElementLib, MaxSections)
    /\ slides = <<>>
    /\ xpc = "input"
    /\ MatchIdle /\ RateIdle /\ FanIdle
    /\ SanIdle /\ QueryIdle /\ StreamIdle
    /\ AuxIdle

Extract ==
    /\ xpc = "input"
    /\ slides' = extractSlidesFromHTML(html)
    /\ xpc' = "done"
    /\ UNCHANGED <<html, matchVars, rateVars, rateObs, fanVars>>
    /\ UNCHANGED <<auxVars, sanVars, queryVars, streamVars>>

SpecExtract == ExtractInit /\ [][Extract]_vars

----------------------------------------------------------------------------
(* The upstream image provider, as far as the routes see it: a catalogue   *)
(* of images, searched by the words of the query.  `terms` is the          *)
(* provider's own index of an image; the other fields are those of a       *)
(* PixabayImageHit that the matcher reads.                                 *)

Image(id, terms, tags, likes, downloads, w, h) ==
    [ id |-> id, terms |-> terms, tags |-> tags, likes |-> likes,
      downloads |-> downloads, imageWidth |-> w, imageHeight |-> h ]

Catalogue ==
    << Image(1, {"solar", "energy"}, << <<"solar">>, <<"energy">> >>, 1200, 8000, 1920, 1080),
       Image(2, {"wind", "turbine"}, << <<"wind">>, <<"wind", "turbine">> >>, 50, 100, 1280, 720),
       Image(3, {"hydro", "dam"},    <<>>, 0, 0, 640, 480),
       Image(4, {"solar", "power"},  << <<"solar", "power">> >>, 300, 2000, 1080, 1920),
       Image(5, {"wind", "blade"},   << <<"blade">> >>, 990, 4000, 1920, 1080),
       Image(6, {"slide", "solar"},  << <<"slide">>, <<"projector">> >>, 10, 10, 800, 600) >>

\* The hits of a successful search: the first perPage catalogue images that
\* share a word with the query.
UpstreamHits(q, perPage) ==
    JsSlice0(SelectSeq(Catalogue,
                       LAMBDA im : im.terms \cap Range(MapSeq(q, Lower)) # {}),
             perPage)

MaxFailures == 1

\* How the upstream searches of a batch can end: each succeeds with the
\* catalogue's hits, except for at most MaxFailures that fail.
Outcomes(queries) ==
    LET n == Len(queries)
        failing == {F \in SUBSET (1..n) : Cardinality(F) <= MaxFailures}
    IN  { [i \in 1..n |-> IF i \in F THEN [ok |-> FALSE]
                          ELSE [ok |-> TRUE, hits |-> UpstreamHits(queries[i].q, 5)]]
          : F \in failing }

----------------------------------------------------------------------------
(* POST /api/match-images.                                                 *)

MatchLib == {HeadedSection, WindSection, SmallHeading}
MaxQueriesChoices == {1, 3}
MaxImagesChoices  == {-1, 2, 5, 7}

\* slides.map(slide => ({slide, queries: generateQueriesForSlide(slide).slice(0, max)}))
SlideQueries(slideList, maxQueries) ==
    MapSeq(slideList,
           LAMBDA sl : [slide |-> sl,
                        queries |-> JsSlice0(generateQueriesForSlide(sl), maxQueries)])

\* slideQueries.flatMap(sq => sq.queries)
AllQueries(slideList, maxQueries) ==
    FlatMap(SlideQueries(slideList, maxQueries), LAMBDA sq : sq.queries)

\* The body of the batch request: the unique queries, in one request.
BatchQueries(slideList, maxQueries) == DedupeQueries(AllQueries(slideList, maxQueries))

\* A faulty limit that returns the matcher's lists as they are.
NoLimit(slidesWithImages, maxImages) == slidesWithImages

\* slidesWithImages.map(slide => ({...slide, suggestedImages: slice(0, max)}))
LimitImages(slidesWithImages, maxImages) ==
    MapSeq(slidesWithImages,
           LAMBDA sl : [sl EXCEPT !.suggestedImages = JsSlice0(sl.suggestedImages, maxImages)])

ErrorResponse(status) == [status |-> status, slides |-> <<>>]

MatchImagesResponse(slideList, uniqueQueries, searchResp, maxImages) ==
    IF searchResp.status # 200 THEN ErrorResponse(searchResp.status)
    ELSE IF MatchThrows(slideList, searchResp.results) THEN ErrorResponse(500)
    ELSE [ status       |-> 200,
           slides       |-> LimitImages(matchImagesToSlides(slideList, searchResp.results),
                                        maxImages),
           totalSlides  |-> Len(slideList),
           totalQueries |-> Len(uniqueQueries),
           totalImages  |-> SumSeq(MapSeq(searchResp.results, LAMBDA r : Len(r.hits))) ]

ServerIp == "unknown"

MatchInit ==
    /\ html \in Documents(MatchLib, MaxSections) \cup {LooseText}
    /\ maxQueriesPerSlide \in MaxQueriesChoices
    /\ maxImagesPerSlide \in MaxImagesChoices
    /\ mpc = "request"
    /\ batchReq = <<>> /\ batchResp = NoResponse /\ matchResp = NoResponse
    /\ slides = <<>> /\ xpc = "idle"
    /\ RateIdle /\ FanIdle
    /\ SanIdle /\ QueryIdle /\ StreamIdle
    /\ AuxIdle

\* The handler up to its fetch of /api/pixabay/batch.
MatchImagesRequest ==
    /\ mpc = "request"
    /\ slides' = extractSlidesFromHTML(html)
    /\ IF slides' = <<>>
       THEN /\ matchResp' = ErrorResponse(400)
            /\ mpc' = "responded"
            /\ UNCHANGED batchReq
       ELSE /\ batchReq' = BatchQueries(slides', maxQueriesPerSlide)
            /\ mpc' = "awaitBatch"
            /\ UNCHANGED matchResp
    /\ UNCHANGED <<html, xpc, maxQueriesPerSlide, maxImagesPerSlide, batchResp, rateVars,
                   rateObs, fanVars>>
    /\ UNCHANGED <<auxVars, sanVars, queryVars, streamVars>>

\* The batch route serves the request; the upstream searches end one way or another.
PixabayBatchServe ==
    /\ mpc = "awaitBatch"
    /\ \E outcome \in Outcomes(batchReq) :
           LET r == PixabayBatchPOST(batchReq, outcome, requestLog, ServerIp, now)
           IN  batchResp' = r.resp /\ requestLog' = r.log
    /\ mpc' = "batchReplied"
    /\ UNCHANGED <<extractVars, maxQueriesPerSlide, maxImagesPerSlide, batchReq,
                   matchResp, now, rateObs, fanVars>>
    /\ UNCHANGED <<auxVars, sanVars, queryVars, streamVars>>

\* The handler from the batch route's answer to its own response.
MatchImagesRespond ==
    /\ mpc = "batchReplied"
    /\ matchResp' = MatchImagesResponse(slides, batchReq, batchResp, maxImagesPerSlide)
    /\ mpc' = "responded"
    /\ UNCHANGED <<extractVars, maxQueriesPerSlide, maxImagesPerSlide, batchReq,
                   batchResp, rateVars, rateObs, fanVars>>
    /\ UNCHANGED <<auxVars, sanVars, queryVars, streamVars>>

MatchNext == MatchImagesRequest \/ PixabayBatchServe \/ MatchImagesRespond

SpecMatch == MatchInit /\ [][MatchNext]_vars

----------------------------------------------------------------------------
(* C1: for a document with k top-level <section> elements (nested sections *)
(* included), extractSlidesFromHTML returns exactly k records, in document *)
(* order, with index 0, 1, ..., k-1.                                       *)
C1_OneSlidePerTopLevelSection ==
    (xpc = "done" /\ WellNested(html)) =>
        /\ Len(slides) = Cardinality(TopLevelOpens(html))
        /\ \A i \in 1..Len(slides) : slides[i].index = i - 1

----------------------------------------------------------------------------
(* Properties of POST /api/match-images (SpecMatch).                       *)

QSet(queries) == {queries[i].q : i \in 1..Len(queries)}
NoRepeats(s) == \A i, j \in 1..Len(s) : i # j => s[i] # s[j]

\* The handler has sent its batch request.
Dispatched == mpc \in {"awaitBatch", "batchReplied"} \/ (mpc = "responded" /\ slides # <<>>)

\* Every q that generateQueriesForSlide produces for some slide.
GeneratedQ(slideList) ==
    UNION {QSet(generateQueriesForSlide(slideList[i])) : i \in 1..Len(slideList)}

\* Every q among the queries the route keeps for some slide.
KeptQ(slideList, maxQueries) == QSet(AllQueries(slideList, maxQueries))

(* C2: every batch request that the match-images route sends to the batch  *)
(* endpoint holds at most 10 queries, for any number of slides and of      *)
(* distinct generated queries.                                             *)
C2_BatchRequestAtMostTen ==
    Dispatched => Len(batchReq) <= BATCH_LIMIT

(* C3: when one query of the batch fails at the provider and the others    *)
(* succeed, the match-images request still succeeds: the failed query      *)
(* counts as zero hits, the slides are matched against the other results   *)
(* and the response is not a 5xx.                                          *)
OneQueryFailed ==
    /\ batchResp.status = 200
    /\ Cardinality({i \in 1..Len(batchResp.results) : ~batchResp.results[i].hasResult}) = 1

C3_FailedQueryStillSucceeds ==
    (mpc = "responded" /\ OneQueryFailed) =>
        /\ matchResp.status = 200
        /\ Len(matchResp.slides) = Len(slides)

(* C8, as claimed: the merged query list sent to the provider holds every  *)
(* distinct q generated by any slide exactly once (none twice, none        *)
(* missing).                                                               *)
C8_EveryGeneratedQueryOnce ==
    Dispatched =>
        /\ NoRepeats(MapSeq(batchReq, LAMBDA query : query.q))
        /\ QSet(batchReq) = GeneratedQ(slides)

(* C8, amended: the merged list holds exactly once every distinct q among  *)
(* the queries kept for each slide, which are the first maxQueriesPerSlide *)
(* that the slide generates; generateQueriesForPresentation, which keeps   *)
(* them all, holds every generated q exactly once.                         *)
C8_EveryKeptQueryOnce ==
    /\ Dispatched =>
        /\ NoRepeats(MapSeq(batchReq, LAMBDA query : query.q))
        /\ QSet(batchReq) = KeptQ(slides, maxQueriesPerSlide)
    /\ mpc # "idle" =>
        /\ NoRepeats(MapSeq(generateQueriesForPresentation(html), LAMBDA query : query.q))
        /\ QSet(generateQueriesForPresentation(html))
               = GeneratedQ(extractSlidesFromHTML(html))

\* Two slides generated the same q, and the cap dropped a generated q.
C8_Witness ==
    /\ Dispatched
    /\ maxQueriesPerSlide = 1
    /\ Len(AllQueries(slides, maxQueriesPerSlide)) > Len(batchReq)
    /\ QSet(batchReq) # GeneratedQ(slides)

(* C9, as claimed: in every successful response each slide's               *)
(* suggestedImages has at most 5 entries and at most maxImagesPerSlide     *)
(* entries, for any value of maxImagesPerSlide.                            *)
C9_AtMostFiveAndAtMostMax ==
    (mpc = "responded" /\ matchResp.status = 200) =>
        \A i \in 1..Len(matchResp.slides) :
            /\ Len(matchResp.slides[i].suggestedImages) <= 5
            /\ Len(matchResp.slides[i].suggestedImages) <= maxImagesPerSlide

(* C9, amended: each suggestedImages has at most 5 entries, and at most    *)
(* maxImagesPerSlide entries when that value is not negative; a negative   *)
(* value -m removes the last m of the matcher's (at most 5) images.        *)
C9_AtMostFiveAndAtMostNonNegativeMax ==
    (mpc = "responded" /\ matchResp.status = 200) =>
        \A i \in 1..Len(matchResp.slides) :
            LET n == Len(matchResp.slides[i].suggestedImages)
                top == Len(MatchSlide(slides[i], batchResp.results).suggestedImages)
            IN  /\ n <= 5
                /\ maxImagesPerSlide >= 0 => n <= maxImagesPerSlide
                /\ maxImagesPerSlide < 0 =>
                       n = (IF top + maxImagesPerSlide < 0 THEN 0
                            ELSE top + maxImagesPerSlide)

\* A successful response in which the limit cut a list of 5 down to 2.
C9_Witness ==
    /\ mpc = "responded" /\ matchResp.status = 200
    /\ maxImagesPerSlide = 2
    /\ \E i \in 1..Len(matchResp.slides) :
           /\ Len(matchResp.slides[i].suggestedImages) = 2
           /\ Len(MatchSlide(slides[i], batchResp.results).suggestedImages) = 5

(* C10: for every slide of a match-images response, searchQueries has no   *)
(* repeated query and is exactly the set of originating queries of the     *)
(* images returned in suggestedImages: every listed query has one of its   *)
(* hits in the returned list, and every returned image is a hit of a       *)
(* listed query.                                                           *)
HitIds(searchResults, q) ==
    UNION { {searchResults[k].hits[h].id : h \in 1..Len(searchResults[k].hits)}
            : k \in {k \in 1..Len(searchResults) : searchResults[k].query = q} }

C10_SearchQueriesAreOrigins ==
    (mpc = "responded" /\ matchResp.status = 200) =>
        \A i \in 1..Len(matchResp.slides) :
            LET sl == matchResp.slides[i]
                returned == {sl.suggestedImages[k].id : k \in 1..Len(sl.suggestedImages)}
            IN  /\ NoRepeats(sl.searchQueries)
                /\ \A k \in 1..Len(sl.searchQueries) :
                       HitIds(batchResp.results, sl.searchQueries[k]) \cap returned # {}
                /\ \A id \in returned :
                       \E k \in 1..Len(sl.searchQueries) :
                           id \in HitIds(batchResp.results, sl.searchQueries[k])

----------------------------------------------------------------------------
(* One client against one rate-limited route (SpecRate).  The client's     *)
(* requests all have the same shape; the clock moves in half windows.      *)

MaxTicks == 2
TickLength == RATE_WINDOW \div 2
ClientIp == "203.0.113.7"

RateEndpoints ==
    {<<"pixabay", 1>>, <<"pixabay-batch", 1>>, <<"pixabay-batch", 10>>,
     <<"pixabay-batch", 11>>, <<"wikimedia-batch", 1>>, <<"wikimedia-batch", 11>>}

\* A request body of n queries, and upstream searches that all find nothing.
RateQueries(n) == [i \in 1..n |-> Query(<<"solar", ToString(i)>>, "photo", "horizontal", FALSE, 0, 0)]
NothingFound(n) == [i \in 1..n |-> [ok |-> TRUE, hits |-> <<>>]]

Handle(ep, n, log, t) ==
    CASE ep = "pixabay" ->
             PixabaySingleGET(<<"solar">>, [ok |-> TRUE, hits |-> <<>>], log, ClientIp, t)
      [] ep = "pixabay-batch" ->
             PixabayBatchPOST(RateQueries(n), NothingFound(n), log, ClientIp, t)
      [] ep = "wikimedia-batch" ->
             WikimediaBatchPOST(RateQueries(n), NothingFound(n), log, ClientIp, t)

RateInit ==
    /\ \E e \in RateEndpoints : endpoint = e[1] /\ reqSize = e[2]
    /\ requestLog = EmptyLog /\ now = 0
    /\ accepted = <<>>
    /\ rateLast = NoResponse
    /\ html = <<>> /\ ExtractIdle /\ MatchIdle /\ FanIdle
    /\ SanIdle /\ QueryIdle /\ StreamIdle
    /\ AuxIdle

\* The client sends one request and the route answers it.
RateRequest ==
    /\ endpoint # "none"
    /\ LET r == Handle(endpoint, reqSize, requestLog, now)
           inWindow == SelectSeq(accepted, LAMBDA ts : now - ts < RATE_WINDOW)
       IN  /\ requestLog' = r.log
           /\ accepted' = IF r.resp.status = 200 THEN Append(inWindow, now) ELSE inWindow
           /\ rateLast' = [ status         |-> r.resp.status,
                            acceptedBefore |-> Len(inWindow),
                            elapsed        |-> Len(accepted) - Len(inWindow),
                            prevStatus     |-> rateLast.status ]
    /\ UNCHANGED <<extractVars, matchVars, now, endpoint, reqSize, fanVars>>
    /\ UNCHANGED <<auxVars, sanVars, queryVars, streamVars>>

\* Half a window passes.
Tick ==
    /\ endpoint # "none"
    /\ now < MaxTicks * TickLength
    /\ now' = now + TickLength
    /\ UNCHANGED <<extractVars, matchVars, requestLog, rateObs, fanVars>>
    /\ UNCHANGED <<auxVars, sanVars, queryVars, streamVars>>

RateNext == RateRequest \/ Tick

SpecRate == RateInit /\ [][RateNext]_vars

\* The client's requests are well-formed for the route.
WellFormedRequests == ~(endpoint = "pixabay-batch" /\ reqSize > BATCH_LIMIT)

(* C4: on each rate-limited route (Pixabay single, Pixabay batch,          *)
(* Wikimedia batch), a request that arrives when exactly RATE_LIMIT        *)
(* requests of the client have been accepted within the trailing           *)
(* RATE_WINDOW is rejected; and a request that arrives when the window has *)
(* elapsed since every accepted request is accepted again.                 *)
C4_RejectedAfterLimitAcceptedAfterWindow ==
    rateLast.status # 0 =>
        /\ rateLast.acceptedBefore <= RATE_LIMIT
        /\ rateLast.acceptedBefore = RATE_LIMIT => rateLast.status = 429
        /\ (rateLast.acceptedBefore = 0 /\ WellFormedRequests) => rateLast.status = 200

\* A request is accepted once the window has elapsed since RATE_LIMIT accepted
\* requests, the client's previous request having been rejected.
C4_Witness ==
    /\ rateLast.status = 200
    /\ rateLast.prevStatus = 429
    /\ rateLast.elapsed = RATE_LIMIT
    /\ endpoint = "pixabay-batch"

----------------------------------------------------------------------------
(* One request to a batch route, search by search (SpecBatch): the handler *)
(* starts its searches, they settle in any order, each by its own          *)
(* then/catch callback, and Promise.all lets the handler answer.           *)

MaxBatch == 11
Words == <<"solar", "wind", "hydro", "slide", "blade">>

\* A request body of n queries with n different q strings.
FanQueries(n) ==
    [i \in 1..n |-> Query(<<Words[((i - 1) % Len(Words)) + 1], ToString(i)>>,
                          "photo", "horizontal", FALSE, 0, 0)]

Pending == [pending |-> TRUE]

BatchAdmit(ep, queries, log, ip, t) ==
    IF ep = "pixabay-batch" THEN PixabayBatchAdmit(queries, log, ip, t)
    ELSE WikimediaBatchAdmit(queries, log, ip, t)

BatchInit ==
    /\ endpoint \in {"pixabay-batch", "wikimedia-batch"}
    /\ batchReq \in {FanQueries(n) : n \in 0..MaxBatch}
    /\ batchResp = NoResponse
    /\ bpc = "received" /\ settled = <<>> /\ outOfOrder = FALSE
    /\ requestLog = EmptyLog /\ now = 0
    /\ reqSize = 0 /\ accepted = <<>> /\ rateLast = NoResponse
    /\ html = <<>> /\ ExtractIdle
    /\ maxQueriesPerSlide = 3 /\ maxImagesPerSlide = 5 /\ mpc = "idle"
    /\ matchResp = NoResponse
    /\ SanIdle /\ QueryIdle /\ StreamIdle
    /\ AuxIdle

\* The handler validates, asks the limiter and starts one search per query.
BatchReceive ==
    /\ bpc = "received"
    /\ LET a == BatchAdmit(endpoint, batchReq, requestLog, ClientIp, now)
       IN  /\ requestLog' = a.log
           /\ IF a.status = 200
              THEN /\ settled' = [i \in 1..Len(a.searched) |-> Pending]
                   /\ bpc' = "searching"
                   /\ UNCHANGED batchResp
              ELSE /\ batchResp' = BatchAnswer(a, <<>>).resp
                   /\ bpc' = "responded"
                   /\ UNCHANGED settled
    /\ UNCHANGED <<extractVars, maxQueriesPerSlide, maxImagesPerSlide, mpc, batchReq,
                   matchResp, now, rateObs, outOfOrder>>
    /\ UNCHANGED <<auxVars, sanVars, queryVars, streamVars>>

\* One of the searches ends, well or badly, and its callback builds the entry.
SearchSettle ==
    /\ bpc = "searching"
    /\ \E i \in 1..Len(settled) :
           /\ settled[i] = Pending
           /\ \E ok \in BOOLEAN :
                  /\ ok \/ Cardinality({j \in 1..Len(settled) :
                                           settled[j] # Pending /\ ~settled[j].hasResult})
                               < MaxFailures
                  /\ settled' = [settled EXCEPT ![i] =
                         BatchEntry(batchReq[i],
                                    IF ok THEN [ok |-> TRUE,
                                                hits |-> UpstreamHits(batchReq[i].q, 5)]
                                    ELSE [ok |-> FALSE])]
           /\ outOfOrder' = (outOfOrder \/ \E j \in 1..(i - 1) : settled[j] = Pending)
    /\ UNCHANGED <<extractVars, matchVars, rateVars, rateObs, bpc>>
    /\ UNCHANGED <<auxVars, sanVars, queryVars, streamVars>>

\* Promise.all resolves once every search has settled; the handler answers.
BatchRespond ==
    /\ bpc = "searching"
    /\ \A i \in 1..Len(settled) : settled[i] # Pending
    /\ batchResp' = BatchResponse(200, PromiseAll(settled))
    /\ bpc' = "responded"
    /\ UNCHANGED <<extractVars, maxQueriesPerSlide, maxImagesPerSlide, mpc, batchReq,
                   matchResp, rateVars, rateObs, settled, outOfOrder>>
    /\ UNCHANGED <<auxVars, sanVars, queryVars, streamVars>>

BatchNext == BatchReceive \/ SearchSettle \/ BatchRespond

SpecBatch == BatchInit /\ [][BatchNext]_vars

\* The entry of query: that of a search that succeeded or that of one that failed.
EntryOf(query, entry) ==
    \/ entry = BatchEntry(query, [ok |-> TRUE, hits |-> UpstreamHits(query.q, 5)])
    \/ entry = BatchEntry(query, [ok |-> FALSE])

BatchAccepted == bpc = "responded" /\ batchResp.status = 200

(* C7, as claimed: for an accepted batch of n queries the adapter waits    *)
(* for all its searches and answers 200 with exactly n entries, entry i    *)
(* belonging to query i whatever the order of completion; a failed search  *)
(* shows in its own entry only.                                            *)
C7_OneEntryPerQuery ==
    BatchAccepted =>
        /\ Len(batchResp.results) = Len(batchReq)
        /\ \A i \in 1..Len(batchResp.results) :
               EntryOf(batchReq[i], batchResp.results[i])

(* C7, amended: an accepted batch of n queries is answered 200 with        *)
(* exactly min(n, 10) entries, entry i belonging to query i whatever the   *)
(* order of completion (the Wikimedia adapter searches only the first 10   *)
(* queries of a longer batch, the Pixabay adapter accepts none); a failed  *)
(* search shows in its own entry only, and every batch whose searches were *)
(* started is answered 200.                                                *)
C7_OneEntryPerSearchedQuery ==
    /\ BatchAccepted =>
        /\ Len(batchResp.results) = Min(Len(batchReq), BATCH_LIMIT)
        /\ Len(batchResp.results) = Len(settled)
        /\ \A i \in 1..Len(batchResp.results) :
               EntryOf(batchReq[i], batchResp.results[i])
    /\ (bpc = "responded" /\ settled # <<>>) => batchResp.status = 200
    /\ (bpc = "responded" /\ endpoint = "pixabay-batch" /\ Len(batchReq) > BATCH_LIMIT)
           => batchResp.status = 400

\* A batch of more than 10 queries answered 200, one search having failed and
\* the searches having settled out of order.
C7_Witness ==
    /\ BatchAccepted
    /\ outOfOrder
    /\ Len(batchReq) > BATCH_LIMIT
    /\ Cardinality({i \in 1..Len(batchResp.results) : ~batchResp.results[i].hasResult}) = 1

----------------------------------------------------------------------------
(* sanitizeGeneratedHtml (chat route).  The generated HTML is a row of     *)
(* tokens: Markdown images, <img> tags with a double-quoted or a           *)
(* single-quoted src, URLs standing in text, the two phrases that announce *)
(* manually added images, the tags of a <div class="container">, and       *)
(* words.  The regular expressions are matched token by token; a match of  *)
(* wikiImageRegex that runs across several tokens is not modelled.         *)

Url(host, file, ext) == [host |-> host, file |-> file, ext |-> ext]

\* /\.(jpe?g|png|gif|svg|webp)$/i
hasValidExtension(url) == url.ext \in {"jpg", "jpeg", "png", "gif", "svg", "webp"}

\* wikiImageRegex: upload.wikimedia.org, commons.wikimedia.org, *.wiki[mp]edia.org
IsWikiUrl(url) ==
    url.host \in {"upload.wikimedia.org", "commons.wikimedia.org", "en.wikipedia.org"}

\* externalImageRegex
IsStockUrl(url) ==
    url.host \in {"images.unsplash.com", "img.freepik.com", "cdn.pixabay.com",
                  "images.pexels.com"}

\* ![alt](url)
Md(alt, url) == [kind |-> "md", alt |-> alt, url |-> url]
\* <img src="url" alt="alt" class="class" />, alt and class "" when absent;
\* boxed: inside the <div class="image-container"> ... </div> of the first pass.
Img(url, alt, class, boxed) ==
    [kind |-> "img", url |-> url, alt |-> alt, class |-> class, boxed |-> boxed]
\* <img src='url'>
ImgSq(url) == [kind |-> "imgsq", url |-> url]
\* a URL standing in text
Bare(url) == [kind |-> "url", url |-> url]
Text(t) == [kind |-> "text", text |-> t]

ManualImage  == Text("include this image in the presentation:")
ManualImages == Text("include these images in the presentation:")
ContainerOpen == Text("<div class=\"container\">")
DivClose      == Text("</div>")

\* The second capture of the Markdown image regexes, (.*?) before the first
\* ")": a URL that holds parentheses is cut at its first closing one.  On the
\* vocabulary of the model.
MdSrc(url) ==
    IF url.file = "panel_(roof)" THEN Url(url.host, "panel_(roof", "") ELSE url

\* The text of a Markdown image that the regex leaves behind its match.
MdRest(url) ==
    IF url.file = "panel_(roof)" THEN <<Text("." \o url.ext \o ")")>> ELSE <<>>

HasUrl(tok) == tok.kind \in {"md", "img", "imgsq", "url"}
IsImgTag(tok) == tok.kind \in {"img", "imgsq"}

\* The least index whose token passes the test, 0 when there is none
\* (indexOf's -1).
FirstWhere(s, Test(_)) ==
    LET hits == {i \in 1..Len(s) : Test(s[i])}
    IN  IF hits = {} THEN 0 ELSE CHOOSE i \in hits : \A j \in hits : i <= j

\* html.includes('include this image ...') || html.includes('include these images ...')
containsManualImages(doc) ==
    \E i \in 1..Len(doc) : doc[i] \in {ManualImage, ManualImages}

\* html.indexOf(match) > html.indexOf('include this image in the presentation:')
isInManualSection(manual, doc, matchAt) ==
    manual /\ matchAt > FirstWhere(doc, LAMBDA t : t = ManualImage)

\* validImageUrls.filter(url => hasValidExtension)
Validated(urls) == SelectSeq(urls, hasValidExtension)

\* What pass p (1 Markdown, 2 <img src="...">, 3 Wikimedia, 4 stock photo)
\* matches at a token.
PassMatches(p, tok) ==
    CASE p = 1 -> tok.kind = "md"
      [] p = 2 -> tok.kind = "img"
      [] p = 3 -> HasUrl(tok) /\ IsWikiUrl(tok.url)
      [] p = 4 -> HasUrl(tok) /\ IsStockUrl(tok.url)

\* html.indexOf(match): the first place where the matched text stands.
IndexOfMatch(p, doc, tok) ==
    CASE p = 1 -> FirstWhere(doc, LAMBDA t : t = tok)
      [] p = 2 -> FirstWhere(doc, LAMBDA t : /\ t.kind = "img" /\ t.url = tok.url
                                             /\ t.alt = tok.alt /\ t.class = tok.class)
      [] OTHER -> FirstWhere(doc, LAMBDA t : HasUrl(t) /\ t.url = tok.url)

\* What the replace callback of pass p returns for a match, url being the URL
\* it has decided on.
\* The URL that the regex of pass p captures at a match.
Captured(p, tok) == IF p = 1 THEN MdSrc(tok.url) ELSE tok.url

\* The tokens that stand behind the match of pass p and are copied as they are.
Leftover(p, tok) == IF p = 1 THEN MdRest(tok.url) ELSE <<>>

Rewritten(p, tok, url) ==
    CASE p = 1 -> Img(url, tok.alt, "presentation-image", TRUE)
      [] p = 2 -> Img(url, IF tok.alt = "" THEN "Presentation image" ELSE tok.alt,
                      "presentation-image", tok.boxed)
      [] OTHER -> [tok EXCEPT !.url = url]

\* One html.replace(regex, callback): the callbacks run left to right on the
\* text the pass started with and share the counter imageReplacements.
RECURSIVE RunPass(_, _, _, _, _, _)
RunPass(p, doc, i, acc, validated, manual) ==
    IF i > Len(doc) THEN acc
    ELSE IF ~PassMatches(p, doc[i])
    THEN RunPass(p, doc, i + 1, [acc EXCEPT !.html = Append(@, doc[i])], validated, manual)
    ELSE LET tok  == doc[i]
             url  == Captured(p, tok)
             keep == \/ url \in Range(validated)
                     \/ isInManualSection(manual, doc, IndexOfMatch(p, doc, tok))
             replacementUrl == validated[(acc.imageReplacements % Len(validated)) + 1]
         IN  IF keep
             THEN RunPass(p, doc, i + 1,
                          [acc EXCEPT !.html = Append(@, Rewritten(p, tok, url))
                                                   \o Leftover(p, tok)],
                          validated, manual)
             ELSE RunPass(p, doc, i + 1,
                          [ html |-> Append(acc.html, Rewritten(p, tok, replacementUrl))
                                         \o Leftover(p, tok),
                            imageReplacements |-> acc.imageReplacements + 1,
                            log |-> Append(acc.log,
                                           [ pass |-> p, from |-> url,
                                             to |-> replacementUrl,
                                             j |-> acc.imageReplacements ]) ],
                          validated, manual)

Pass(p, acc, validated, manual) ==
    RunPass(p, acc.html, 1, [acc EXCEPT !.html = <<>>], validated, manual)

\* Pass 5: /<div class="container">([\s\S]*?)<\/div>/ is removed unless the
\* match includes '<img'.  The first </div> after the opening tag ends the
\* match; the box of a pass-1 image ends with one.
RECURSIVE RemoveEmptyContainers(_, _)
RemoveEmptyContainers(doc, i) ==
    IF i > Len(doc) THEN <<>>
    ELSE IF doc[i] # ContainerOpen
    THEN <<doc[i]>> \o RemoveEmptyContainers(doc, i + 1)
    ELSE LET closes == {j \in (i + 1)..Len(doc) :
                           doc[j] = DivClose \/ (doc[j].kind = "img" /\ doc[j].boxed)}
         IN  IF closes = {} THEN SubSeq(doc, i, Len(doc))
             ELSE LET j == CHOOSE c \in closes : \A d \in closes : c <= d
                  IN  IF \E k \in i..j : IsImgTag(doc[k])
                      THEN SubSeq(doc, i, j) \o RemoveEmptyContainers(doc, j + 1)
                      ELSE RemoveEmptyContainers(doc, j + 1)

SanResult(doc, log) == [html |-> doc, log |-> log]

\* The replacing variant (the second sanitizeGeneratedHtml of the chat route).
sanitizeReplacing(doc, urls) ==
    IF urls = <<>> \/ doc = <<>> \/ Validated(urls) = <<>>
    THEN SanResult(doc, <<>>)
    ELSE LET manual == containsManualImages(doc)
             start  == [html |-> doc, imageReplacements |-> 0, log |-> <<>>]
             p1 == Pass(1, start, Validated(urls), manual)
             p2 == Pass(2, p1, Validated(urls), manual)
             p3 == Pass(3, p2, Validated(urls), manual)
             p4 == Pass(4, p3, Validated(urls), manual)
         IN  SanResult(RemoveEmptyContainers(p4.html, 1), p4.log)

\* The flagging variant (the first sanitizeGeneratedHtml): Markdown images and
\* <img> tags of either quoting become styled tags, no URL is changed.
FlagToken(tok) ==
    CASE tok.kind = "md"    -> Img(MdSrc(tok.url), tok.alt, "slide-image", FALSE)
      [] tok.kind = "img"   -> IF tok.class = "slide-image" THEN tok
                               ELSE Img(tok.url, IF tok.alt = "" THEN "Slide image" ELSE tok.alt,
                                        IF tok.class = "" THEN "slide-image"
                                        ELSE tok.class \o " slide-image", tok.boxed)
      [] tok.kind = "imgsq" -> Img(tok.url, "Slide image", "slide-image", FALSE)
      [] OTHER -> tok

\* What stands in the output in the place of a token.
FlagTokens(tok) ==
    <<FlagToken(tok)>> \o (IF tok.kind = "md" THEN MdRest(tok.url) ELSE <<>>)

sanitizeFlagging(doc, urls) == SanResult(Concat(MapSeq(doc, FlagTokens)), <<>>)

sanitizeGeneratedHtml(variant, doc, urls) ==
    IF variant = 1 THEN sanitizeFlagging(doc, urls) ELSE sanitizeReplacing(doc, urls)

----------------------------------------------------------------------------
(* The sanitizer run on a generated document and then on its own output    *)
(* (SpecSanitize).                                                         *)

MaxTokens == 4

PhotoA     == Url("cdn.pixabay.com", "sun", "jpg")
PhotoB     == Url("cdn.pixabay.com", "mill", "png")
PhotoNoExt == Url("pixabay.com", "get/abc", "")
WikiUrl    == Url("upload.wikimedia.org", "dam", "png")
StockUrl   == Url("images.unsplash.com", "sea", "jpg")
OtherUrl   == Url("example.com", "chart", "png")
ParenUrl   == Url("example.com", "panel_(roof)", "jpg")

TokenLib ==
    { Md("chart", OtherUrl), Md("roof", ParenUrl), Img(WikiUrl, "", "", FALSE), Img(PhotoA, "", "", FALSE),
      Img(PhotoNoExt, "", "", FALSE), ImgSq(OtherUrl), Bare(StockUrl),
      ManualImage, ManualImages, ContainerOpen, DivClose }

ValidLists == { <<>>, <<PhotoA, PhotoB>>, <<PhotoNoExt, PhotoA, PhotoB>> }

SanInit ==
    /\ genHtml \in SeqsUpTo(TokenLib, MaxTokens)
    /\ validImageUrls \in ValidLists
    /\ sanVariant \in {1, 2}
    /\ sanRuns = <<>>
    /\ html = <<>> /\ ExtractIdle /\ MatchIdle /\ RateIdle /\ FanIdle /\ QueryIdle
    /\ StreamIdle
    /\ AuxIdle

\* The sanitizer runs on the generated HTML.
Sanitize ==
    /\ sanVariant # 0 /\ Len(sanRuns) = 0
    /\ sanRuns' = <<sanitizeGeneratedHtml(sanVariant, genHtml, validImageUrls)>>
    /\ UNCHANGED <<auxVars, extractVars, matchVars, rateVars, rateObs, fanVars, queryVars,
                   streamVars, genHtml, validImageUrls, sanVariant>>

\* The sanitizer runs again, on its own output.
SanitizeAgain ==
    /\ Len(sanRuns) = 1
    /\ sanRuns' = Append(sanRuns,
                         sanitizeGeneratedHtml(sanVariant, sanRuns[1].html, validImageUrls))
    /\ UNCHANGED <<auxVars, extractVars, matchVars, rateVars, rateObs, fanVars, queryVars,
                   streamVars, genHtml, validImageUrls, sanVariant>>

SanNext == Sanitize \/ SanitizeAgain

SpecSanitize == SanInit /\ [][SanNext]_vars

\* The image URLs of a document, in order: those of Markdown images and <img>
\* tags, and the Wikimedia and stock-photo URLs standing in text.
ImageUrls(doc) ==
    MapSeq(SelectSeq(doc, LAMBDA t : HasUrl(t)), LAMBDA t : t.url)

(* C5: in the replacing variant, every image URL of the generated HTML     *)
(* that is not in the valid-URL set is replaced by an entry of the         *)
(* valid-URL list, so that none remains, and the j-th replacement of the   *)
(* run (from 0) uses the entry at position j mod n of the n valid URLs.    *)
C5_InvalidUrlsReplacedCyclically ==
    (sanVariant = 2 /\ Len(sanRuns) >= 1 /\ validImageUrls # <<>>) =>
        /\ \A i \in 1..Len(ImageUrls(sanRuns[1].html)) :
               ImageUrls(sanRuns[1].html)[i] \in Range(validImageUrls)
        /\ \A k \in 1..Len(sanRuns[1].log) :
               /\ sanRuns[1].log[k].from \notin Range(validImageUrls)
               /\ sanRuns[1].log[k].to =
                      validImageUrls[((k - 1) % Len(validImageUrls)) + 1]

(* C6: a second run of the sanitizer on its own output, with the same      *)
(* valid-URL set, replaces no URL: the image URLs after the second run are *)
(* those after the first, unchanged and in the same places.                *)
C6_SecondRunReplacesNothing ==
    Len(sanRuns) = 2 =>
        /\ sanRuns[2].log = <<>>
        /\ ImageUrls(sanRuns[2].html) = ImageUrls(sanRuns[1].html)

----------------------------------------------------------------------------
(* Properties of the ranking (SpecMatch).                                  *)

MatchSucceeded == mpc = "responded" /\ matchResp.status = 200

\* The q strings that a slide generates itself.
OwnQ(slide) == QSet(generateQueriesForSlide(slide))

(* C11: for each slide the returned suggestedImages are the highest-scoring *)
(* (image, originating query) pairs among ALL the search results of the    *)
(* presentation, in non-increasing score order: they are the first entries *)
(* of a ranking that is drawn from the candidates, falls in score and      *)
(* holds every candidate that scores strictly higher than one it holds.    *)
C11_TopScoringFromAllResults ==
    MatchSucceeded =>
        \A i \in 1..Len(slides) :
            LET scored   == ScoredImages(slides[i], batchResp.results)
                top      == TopImages(slides[i], batchResp.results)
                returned == matchResp.slides[i].suggestedImages
            IN  /\ Len(top) = Min(5, Len(scored))
                /\ \A m \in 1..Len(top) : Count(top[m], top) <= Count(top[m], scored)
                /\ \A m \in 1..(Len(top) - 1) : top[m].score >= top[m + 1].score
                /\ \A m \in 1..Len(top) :
                       Cardinality({k \in 1..Len(scored) : scored[k].score > top[m].score})
                           = Cardinality({k \in 1..Len(top) : top[k].score > top[m].score})
                /\ Len(returned) <= Len(top)
                /\ \A m \in 1..Len(returned) : returned[m] = top[m].hit

\* A slide is given an image that only another slide's query found, while
\* lower-scoring candidates are left out.
C11_Witness ==
    /\ MatchSucceeded
    /\ \E i \in 1..Len(slides) :
           /\ Len(ScoredImages(slides[i], batchResp.results)) > 5
           /\ Len(matchResp.slides[i].suggestedImages) = 5
           /\ \E m \in 1..5 :
                  LET e == TopImages(slides[i], batchResp.results)[m]
                  IN  /\ e.query \notin OwnQ(slides[i])
                      /\ \A q \in OwnQ(slides[i]) :
                             e.hit.id \notin HitIds(batchResp.results, q)

\* The sum the scoring contract describes, over the tags the image carries.
ContractScore(image, slide, query) ==
    LET combinedText == MapSeq(slide.title \o slide.content, Lower)
    IN    Min(image.likes * 10, 10000)
        + Min(image.downloads, 5000)
        + (IF image.imageWidth >= 1920 /\ image.imageHeight >= 1080 THEN 5000
           ELSE IF image.imageWidth >= 1280 /\ image.imageHeight >= 720 THEN 3000
           ELSE 0)
        + (IF slide.type = "cover" /\ image.imageWidth > image.imageHeight
           THEN 5000 ELSE 0)
        + 2000 * Cardinality({k \in 1..Len(image.tags) :
                                  Includes(combinedText, image.tags[k])})
        + (IF \E k \in 1..Len(image.tags) :
                  Includes(image.tags[k], MapSeq(query, Lower))
           THEN 3000 ELSE 0)

(* C12: the score of every (image, query) candidate of every slide is      *)
(* exactly the popularity terms, the resolution term, the cover-landscape  *)
(* term, 2 per tag of the image found in the slide's lower-cased title and *)
(* content, and 3 when the query occurs in the tag string; nothing else is *)
(* added, also for an image whose tag string is empty.                     *)
C12_ScoreIsContractSum ==
    MatchSucceeded =>
        \A i \in 1..Len(slides) :
            LET scored == ScoredImages(slides[i], batchResp.results)
            IN  \A k \in 1..Len(scored) :
                    scored[k].score
                        = ContractScore(scored[k].hit, slides[i], scored[k].query)

----------------------------------------------------------------------------
(* The query generator as a state machine: one call of                     *)
(* generateQueriesForSlide on one SlideContent.  The function takes any    *)
(* SlideContent, so the slide is drawn from every combination of type,     *)
(* index, title and content, the empty texts included.                     *)

MaxWords == 3

QueryWords  == {"wind", "solar", "2024", "1999", "the"}
QueryTitles == {<<>>, <<"Slide", "2">>, <<"solar", "2024">>}
SlideTypes  == {"cover", "content", "conclusion"}
SlideIndexes == {-1, 0, 1}

QueryInit ==
    /\ \E type \in SlideTypes, index \in SlideIndexes, title \in QueryTitles,
          content \in SeqsUpTo(QueryWords, MaxWords) :
           qSlide = [index |-> index, title |-> title, content |-> content, type |-> type]
    /\ qOut = <<>>
    /\ qpc = "call"
    /\ html = <<>> /\ ExtractIdle /\ MatchIdle /\ RateIdle /\ FanIdle /\ SanIdle
    /\ StreamIdle
    /\ AuxIdle

GenerateQueries ==
    /\ qpc = "call"
    /\ qOut' = generateQueriesForSlide(qSlide)
    /\ qpc' = "returned"
    /\ UNCHANGED <<auxVars, extractVars, matchVars, rateVars, rateObs, fanVars, sanVars, streamVars,
                   qSlide>>

SpecQueries == QueryInit /\ [][GenerateQueries]_vars

(* C13: for every slide, whatever its type, index, title and content (the  *)
(* empty texts included), generateQueriesForSlide returns at least one and *)
(* at most three queries.                                                  *)
C13_OneToThreeQueries ==
    qpc = "returned" => Len(qOut) >= 1 /\ Len(qOut) <= 3

\* A content slide with no text at all still gets one query.
C13_Witness ==
    /\ qpc = "returned"
    /\ qSlide.title = <<>> /\ qSlide.content = <<>>
    /\ qSlide.type = "content" /\ qSlide.index = 1
    /\ Len(qOut) = 1

\* The position of the first occurrence of term t in the key terms.
FirstOccurrence(t, keyTerms) ==
    CHOOSE i \in 1..Len(keyTerms) :
        keyTerms[i] = t /\ \A j \in 1..(i - 1) : keyTerms[j] # t

(* C14: the terms are ranked by descending frequency, and of two terms     *)
(* with the same frequency the one that occurs first in the title+content  *)
(* token sequence is ranked first, for every kind of token, purely numeric *)
(* tokens such as "2024" included.                                         *)
C14_RankedByFrequencyThenFirstOccurrence ==
    qpc = "returned" =>
        LET keyTerms == KeyTerms(qSlide.title, qSlide.content)
            sorted   == SortedTerms(qSlide.title, qSlide.content)
        IN  \A a, b \in 1..Len(sorted) :
                a < b =>
                    \/ Count(sorted[a], keyTerms) > Count(sorted[b], keyTerms)
                    \/ /\ Count(sorted[a], keyTerms) = Count(sorted[b], keyTerms)
                       /\ FirstOccurrence(sorted[a], keyTerms)
                              < FirstOccurrence(sorted[b], keyTerms)

----------------------------------------------------------------------------
(* Properties of the extracted slide records (SpecExtract).                *)

\* No section lies inside another one.
Flat(doc) == WellNested(doc) /\ \A i \in 1..Len(doc) : DepthAfter(doc, i) <= 1

\* The tokens inside the i-th section of a flat document.
SectionBody(doc, i) ==
    LET o == CHOOSE p \in TopLevelOpens(doc) :
                 Cardinality({r \in TopLevelOpens(doc) : r < p}) = i - 1
    IN  SubSeq(doc, o + 1, ClosingOf(doc, o) - 1)

\* The words of the first heading element of any level, <<>> when there is none.
FirstHeadingText(body) ==
    LET o == FirstIn(body, {H13Open, H46Open}, 1)
        c == IF o = 0 THEN 0 ELSE FirstIn(body, {H13Close, H46Close}, o + 1)
    IN  IF c = 0 THEN <<>> ELSE StripTags(SubSeq(body, o + 1, c - 1))

HasHeading(body) == \E k \in 1..Len(body) : body[k] \in {H13Open, H46Open}

(* C15: the title of each slide is the text of the first heading of its    *)
(* section, whatever the level of that heading (h1 to h6); the default     *)
(* title is used only for a section without any heading.                   *)
C15_TitleIsFirstHeadingOfAnyLevel ==
    (xpc = "done" /\ Flat(html) /\ Len(slides) = Cardinality(TopLevelOpens(html))) =>
        \A i \in 1..Len(slides) :
            LET body == SectionBody(html, i)
            IN  IF HasHeading(body)
                THEN slides[i].title = FirstHeadingText(body)
                ELSE slides[i].title = DefaultTitle(i - 1)

(* C16: the slide at index 0 is typed cover whatever it contains; a later  *)
(* slide is typed conclusion exactly when conclusion, summary or thank you *)
(* occurs in its title or in its content, and content otherwise.           *)
C16_TypeFromPositionOrKeyword ==
    xpc = "done" =>
        \A i \in 1..Len(slides) :
            slides[i].type =
                IF i = 1 THEN "cover"
                ELSE IF \/ HasConclusionKeyword(slides[i].title)
                        \/ HasConclusionKeyword(slides[i].content)
                     THEN "conclusion"
                     ELSE "content"

----------------------------------------------------------------------------
(* Properties of a request without slides (SpecMatch).                     *)

(* C17: when the HTML holds no section, the extractor returns the empty    *)
(* list and match-images treats it as nothing to process: it answers       *)
(* without an error status and without calling the provider.               *)
C17_NoSlidesIsNotAnError ==
    (mpc = "responded" /\ TopLevelOpens(html) = {}) =>
        /\ slides = <<>>
        /\ matchResp.status < 400
        /\ batchReq = <<>> /\ batchResp = NoResponse

----------------------------------------------------------------------------
(* The TransformStream of the chat route (POST /api/chat).  A chunk is a   *)
(* piece of text: either text that JSON.parse rejects, or the JSON text of *)
(* a value, in some layout (JSON.stringify writes the compact one).        *)

Fragment(id) == [kind |-> "text", layout |-> "raw", value |-> [type |-> "fragment", id |-> id]]
JsonChunk(layout, value) == [kind |-> "json", layout |-> layout, value |-> value]
JsonNull == [type |-> "null"]
\* An object with a title and, when hasCode, a string field code (its HTML).
JsonObject(title, hasCode, code) ==
    [type |-> "object", title |-> title, hasCode |-> hasCode, code |-> code]

\* JSON.stringify(value)
JSONstringify(value) == JsonChunk("compact", value)

\* data && typeof data === 'object' && data.code
IsCompleteObject(data) == data.type = "object" /\ data.hasCode /\ data.code # <<>>

\* { ...generatedObject, code: sanitizedCode }
SanitizedObject(data, variant, urls) ==
    JsonObject(data.title, TRUE, sanitizeGeneratedHtml(variant, data.code, urls).html)

\* A faulty transform that swallows the chunks it cannot parse.
DropUnparsed(chunk, variant, urls) ==
    IF chunk.kind # "json" THEN <<>>
    ELSE IF IsCompleteObject(chunk.value)
         THEN <<JSONstringify(SanitizedObject(chunk.value, variant, urls))>>
         ELSE <<chunk>>

\* transform(chunk, controller): the chunks it enqueues, in order.
transform(chunk, variant, urls) ==
    IF chunk.kind # "json" THEN <<chunk>>
    ELSE IF IsCompleteObject(chunk.value)
         THEN <<JSONstringify(SanitizedObject(chunk.value, variant, urls))>>
         ELSE <<chunk>>

MaxChunks == 3

ChunkLib ==
    { Fragment(1), Fragment(2),
      JsonChunk("compact", JsonNull),
      JsonChunk("pretty", JsonObject("intro", FALSE, <<>>)),
      JsonChunk("pretty", JsonObject("blank", TRUE, <<>>)),
      JsonChunk("pretty", JsonObject("chart", TRUE, <<Md("chart", OtherUrl)>>)),
      JsonChunk("compact", JsonObject("photo", TRUE, <<Img(PhotoA, "", "", FALSE)>>)) }

StreamInit ==
    /\ streamIn \in SeqsUpTo(ChunkLib, MaxChunks)
    /\ source = streamIn
    /\ writableQueue = <<>>
    /\ readable = <<>>
    /\ sanVariant \in {1, 2}
    /\ validImageUrls \in ValidLists
    /\ genHtml = <<>> /\ sanRuns = <<>>
    /\ html = <<>> /\ ExtractIdle /\ MatchIdle /\ RateIdle /\ FanIdle /\ QueryIdle
    /\ AuxIdle

\* pipeTo(writable) writes the next chunk of the text stream.
PipeChunk ==
    /\ source # <<>>
    /\ writableQueue' = Append(writableQueue, Head(source))
    /\ source' = Tail(source)
    /\ UNCHANGED <<auxVars, extractVars, matchVars, rateVars, rateObs, fanVars, sanVars, queryVars,
                   streamIn, readable>>

\* The stream calls transform on the oldest written chunk.
Transform ==
    /\ writableQueue # <<>>
    /\ readable' = readable \o transform(Head(writableQueue), sanVariant, validImageUrls)
    /\ writableQueue' = Tail(writableQueue)
    /\ UNCHANGED <<auxVars, extractVars, matchVars, rateVars, rateObs, fanVars, sanVars, queryVars,
                   streamIn, source>>

StreamNext == PipeChunk \/ Transform

SpecStream == StreamInit /\ [][StreamNext]_vars

\* The number of chunks the transform has been called on.
Transformed == Len(streamIn) - Len(source) - Len(writableQueue)

(* C18: the transform enqueues exactly one chunk per chunk it is given, in *)
(* the order of the input; a chunk that does not parse, or whose value has *)
(* no code field, is enqueued unchanged; a chunk with a code field yields  *)
(* the JSON of the same object; nothing is dropped, duplicated, reordered  *)
(* or held back.                                                           *)
C18_OneChunkOutPerChunkIn ==
    /\ Len(readable) = Transformed
    /\ \A k \in 1..Min(Len(readable), Transformed) :
           LET c == streamIn[k]
           IN  IF c.kind # "json" \/ c.value.type # "object" \/ ~c.value.hasCode
               THEN readable[k] = c
               ELSE /\ readable[k].kind = "json"
                    /\ readable[k].value.type = "object"
                    /\ readable[k].value.title = c.value.title

\* A stream of three chunks has passed: one that does not parse, one object
\* without code that went through as it was, one object whose code was rewritten.
C18_Witness ==
    /\ Len(streamIn) = 3 /\ source = <<>> /\ writableQueue = <<>>
    /\ \E i, j, k \in 1..3 :
           /\ streamIn[i].kind = "text" /\ readable[i] = streamIn[i]
           /\ streamIn[j] = JsonChunk("pretty", JsonObject("intro", FALSE, <<>>))
           /\ readable[j] = streamIn[j]
           /\ streamIn[k].kind = "json" /\ IsCompleteObject(streamIn[k].value)
           /\ readable[k] # streamIn[k]

----------------------------------------------------------------------------
(* Properties of one sanitizer run (SpecSanitize).                         *)

\* The URLs of the Markdown images and <img> tags of a document, in order.
TagUrls(doc) ==
    MapSeq(SelectSeq(doc, LAMBDA t : t.kind \in {"md", "img", "imgsq"}), LAMBDA t : t.url)

(* C19: the flagging variant never changes, replaces or removes an image   *)
(* URL: the URLs of the Markdown images and <img> tags of its output are,  *)
(* in order, those of its input.                                           *)
C19_FlaggingKeepsEveryUrl ==
    (sanVariant = 1 /\ Len(sanRuns) >= 1) =>
        TagUrls(sanRuns[1].html) = TagUrls(genHtml)

(* C20: after a run of the sanitizer no Markdown image is left in the      *)
(* HTML, in either variant and for every list of valid URLs, the empty     *)
(* list included.                                                          *)
C20_NoMarkdownImageLeft ==
    Len(sanRuns) >= 1 =>
        \A i \in 1..Len(sanRuns[1].html) : sanRuns[1].html[i].kind # "md"

----------------------------------------------------------------------------
(* The route handlers up to their first answer: one request to one         *)
(* endpoint.  The required field of the request is absent, empty ("" or    *)
(* [] or {}) or present; `limited` is what isRateLimited answers for the   *)
(* client; `upstreamOk` tells whether the work behind a valid request      *)
(* succeeds.                                                               *)

Response(status, kind, headers) == [status |-> status, kind |-> kind, headers |-> headers]

Absent  == [kind |-> "absent"]
Empty   == [kind |-> "empty"]
Present == [kind |-> "present"]
\* The url parameter of the image proxy; rest starts with "/".
ImageUrl(scheme, host, rest) == [kind |-> "url", scheme |-> scheme, host |-> host, rest |-> rest]

\* !value
Falsy(field) == field.kind \in {"absent", "empty"}

\* What a handler answers once the request has passed its checks.
Work(req) ==
    IF req.upstreamOk THEN Response(200, "json", {}) ELSE Response(500, "json", {})

\* A TypeError that no try block catches: the framework answers 500.
Uncaught == Response(500, "uncaught", {})

RateLimitHeaders == {"X-RateLimit-Limit", "X-RateLimit-Remaining", "X-RateLimit-Reset"}

\* POST /api/match-images
AnswerMatchImages(req) ==
    IF Falsy(req.field) THEN Response(400, "json", {}) ELSE Work(req)

\* POST /api/pixabay/batch: the body is checked before the limiter.
AnswerPixabayBatch(req) ==
    IF Falsy(req.field) THEN Response(400, "json", {})
    ELSE IF req.limited THEN Response(429, "json", {})
    ELSE Work(req)

\* GET /api/pixabay: the limiter runs before the check of q.
AnswerPixabaySingle(req) ==
    IF req.limited THEN Response(429, "json", {})
    ELSE IF Falsy(req.field) THEN Response(400, "json", {})
    ELSE Work(req)

\* POST /api/wikimedia/batch: the limiter runs before the body is read.
AnswerWikimediaBatch(req) ==
    IF req.limited THEN Response(429, "json", {})
    ELSE IF Falsy(req.field) THEN Response(400, "json", {})
    ELSE Work(req)

\* GET /api/wikimedia
AnswerWikimediaSingle(req) ==
    IF Falsy(req.field) THEN Response(400, "json", {}) ELSE Work(req)

\* imageUrl.startsWith('https://' + host + '/')
StartsWithHost(url, host) == url.scheme = "https" /\ url.host = host

\* imageUrl.includes('pixabay.com'), on the vocabulary of the model.
IncludesPixabay(url) ==
    \/ url.host \in {"pixabay.com", "cdn.pixabay.com", "pixabay.com.evil.example"}
    \/ url.rest = "/?ref=pixabay.com"

\* GET /api/pixabay/image.  NextResponse.redirect throws on a URL without a
\* scheme; the catch block answers with an SVG picture.
AnswerPixabayImage(req) ==
    IF Falsy(req.field) THEN Response(400, "json", {})
    ELSE IF /\ ~StartsWithHost(req.field, "pixabay.com")
            /\ ~StartsWithHost(req.field, "cdn.pixabay.com")
            /\ ~IncludesPixabay(req.field)
    THEN Response(400, "json", {})
    ELSE IF req.field.scheme = "" THEN Response(200, "svg", {})
    ELSE Response(307, "redirect", {})

\* POST /api/generate-queries
AnswerGenerateQueries(req) ==
    IF Falsy(req.field) THEN Response(400, "json", {}) ELSE Work(req)

\* POST /api/generate-slides
AnswerGenerateSlides(req) ==
    IF Falsy(req.field) THEN Response(400, "json", {}) ELSE Work(req)

\* POST /api/chat, first variant: messages.find(...) throws on undefined and
\* the catch block answers 500; an empty list gives the empty topic.
AnswerChatFlagging(req) ==
    IF req.field.kind = "absent" THEN Response(500, "json", {}) ELSE Work(req)

\* POST /api/chat, second variant: messages[messages.length - 1] throws on
\* undefined, lastMsg.content throws on an empty list.
AnswerChatReplacing(req) ==
    IF Falsy(req.field) THEN Response(500, "json", {}) ELSE Work(req)

\* POST /api/convertd: artifact.code throws on undefined, Buffer.from(undefined)
\* throws for an artifact without code; there is no try block.
AnswerConvertd(req) ==
    IF Falsy(req.field) THEN Uncaught ELSE Response(200, "json", {})

\* GET /api/limit
AnswerLimit(req) ==
    IF req.limited THEN Response(429, "text", RateLimitHeaders)
    ELSE Response(200, "json", {})

RateLimitedEndpoints == {"pixabay-batch", "pixabay", "wikimedia-batch", "limit"}
FieldEndpoints ==
    {"match-images", "pixabay-batch", "pixabay", "wikimedia-batch", "wikimedia",
     "pixabay-image", "generate-queries", "generate-slides", "chat-1", "chat-2", "convertd"}
Endpoints == FieldEndpoints \cup {"limit"}

Answer(req) ==
    CASE req.endpoint = "match-images"     -> AnswerMatchImages(req)
      [] req.endpoint = "pixabay-batch"    -> AnswerPixabayBatch(req)
      [] req.endpoint = "pixabay"          -> AnswerPixabaySingle(req)
      [] req.endpoint = "wikimedia-batch"  -> AnswerWikimediaBatch(req)
      [] req.endpoint = "wikimedia"        -> AnswerWikimediaSingle(req)
      [] req.endpoint = "pixabay-image"    -> AnswerPixabayImage(req)
      [] req.endpoint = "generate-queries" -> AnswerGenerateQueries(req)
      [] req.endpoint = "generate-slides"  -> AnswerGenerateSlides(req)
      [] req.endpoint = "chat-1"           -> AnswerChatFlagging(req)
      [] req.endpoint = "chat-2"           -> AnswerChatReplacing(req)
      [] req.endpoint = "convertd"         -> AnswerConvertd(req)
      [] req.endpoint = "limit"            -> AnswerLimit(req)

ProxyUrls ==
    { ImageUrl("https", "pixabay.com", "/photo.jpg"),
      ImageUrl("https", "cdn.pixabay.com", "/photo.jpg"),
      ImageUrl("http", "pixabay.com", "/photo.jpg"),
      ImageUrl("", "pixabay.com", "/photo.jpg"),
      ImageUrl("https", "pixabay.com.evil.example", "/photo.jpg"),
      ImageUrl("https", "evil.example", "/?ref=pixabay.com"),
      ImageUrl("https", "evil.example", "/photo.jpg") }

FieldValues(e) ==
    IF e = "pixabay-image" THEN {Absent, Empty} \cup ProxyUrls
    ELSE IF e = "limit" THEN {Absent}
    ELSE {Absent, Empty, Present}

EndpointInit ==
    /\ \E e \in Endpoints, limited \in BOOLEAN, ok \in BOOLEAN :
           \E f \in FieldValues(e) :
               /\ limited => e \in RateLimitedEndpoints
               /\ epReq = [endpoint |-> e, field |-> f, limited |-> limited,
                           upstreamOk |-> ok]
    /\ epResp = NoResponse
    /\ CoreIdle /\ ConcIdle /\ LateIdle

HandleRequest ==
    /\ epResp = NoResponse
    /\ epResp' = Answer(epReq)
    /\ UNCHANGED <<coreVars, concVars, lateVars, epReq>>

SpecEndpoints == EndpointInit /\ [][HandleRequest]_vars

Answered == epResp # NoResponse

(* C21: every endpoint answers a request that lacks its required field     *)
(* with HTTP 400 and a JSON error object, never with a 5xx response or an  *)
(* uncaught exception.                                                     *)
C21_MissingFieldIs400 ==
    (Answered /\ epReq.endpoint \in FieldEndpoints /\ epReq.field = Absent) =>
        epResp.status = 400 /\ epResp.kind = "json"

(* C22: every rate-limit rejection, on every rate-limited endpoint, is an  *)
(* HTTP 429 response that carries the limit, remaining and reset headers.  *)
C22_RejectionCarriesHeaders ==
    (Answered /\ epResp.status = 429) => RateLimitHeaders \subseteq epResp.headers

(* C25: the image proxy redirects only when the url parameter points to    *)
(* the host pixabay.com or cdn.pixabay.com; every other URL, also one that *)
(* merely holds the text pixabay.com, is answered 400 and not redirected.  *)
C25_RedirectOnlyToPixabayHosts ==
    (Answered /\ epReq.endpoint = "pixabay-image" /\ epReq.field.kind = "url") =>
        IF epReq.field.host \in {"pixabay.com", "cdn.pixabay.com"}
        THEN TRUE
        ELSE epResp.status = 400 /\ epResp.kind # "redirect"

----------------------------------------------------------------------------
(* Concurrently handled requests of one client on one search route.  A     *)
(* handler runs without interruption from one await to the next: the       *)
(* Pixabay batch handler awaits the request body before it calls           *)
(* isRateLimited, the other two call it before their first await; each     *)
(* then awaits its searches.  isRateLimited itself holds no await.         *)

MaxInFlight == 3
\* Requests arrive until this many timestamps have been recorded in all.
MaxHistory == 120

\* endpoint, queries per request, requests of the client already logged at time 0
ConcurrentEndpoints ==
    { <<"pixabay-batch", 10, 0>>, <<"pixabay-batch", 7, 0>>,
      <<"pixabay", 1, RATE_LIMIT - 3>>, <<"wikimedia-batch", 1, RATE_LIMIT - 3>> }

LogOf(ip, stamps) == [i \in {ip} |-> stamps]

ConcurrentInit ==
    /\ \E e \in ConcurrentEndpoints :
           /\ endpoint = e[1] /\ reqSize = e[2]
           /\ recorded = Repeat(0, e[3])
           /\ requestLog = IF e[3] = 0 THEN EmptyLog ELSE LogOf(ClientIp, Repeat(0, e[3]))
    /\ now = 0
    /\ inflight = NoneInFlight
    /\ rejected = 0
    /\ accepted = <<>> /\ rateLast = NoResponse
    /\ html = <<>> /\ ExtractIdle /\ MatchIdle /\ FanIdle
    /\ SanIdle /\ QueryIdle /\ StreamIdle /\ EndpointIdle /\ LateIdle

\* The limiter call of the route in use.
Limiter(ep, log, n, t) ==
    CASE ep = "pixabay-batch"   -> isRateLimitedBatch(log, ClientIp, n, t)
      [] ep = "pixabay"         -> isRateLimitedSingle(log, ClientIp, t)
      [] ep = "wikimedia-batch" -> isRateLimitedWikimedia(log, ClientIp, t)

\* The stretch of a handler that holds the isRateLimited call: the verdict,
\* and on acceptance the pushed timestamps and the await of the searches.
CheckAndRecord(waitingBefore) ==
    LET rl == Limiter(endpoint, requestLog, reqSize, now)
    IN  /\ requestLog' = rl.log
        /\ IF rl.limited
           THEN /\ rejected' = Min(rejected + 1, MaxInFlight)
                /\ recorded' = recorded
                /\ inflight' = [inflight EXCEPT !.body = @ - waitingBefore]
           ELSE /\ rejected' = rejected
                /\ recorded' = recorded \o Repeat(now, reqSize)
                /\ inflight' = [inflight EXCEPT !.body = @ - waitingBefore,
                                                !.search = @ + 1]

\* A request arrives; the handler runs up to its first await.
Arrive ==
    /\ endpoint # "none"
    /\ inflight.body + inflight.search < MaxInFlight
    /\ Len(recorded) < MaxHistory
    /\ IF endpoint = "pixabay-batch"
       THEN /\ inflight' = [inflight EXCEPT !.body = @ + 1]
            /\ UNCHANGED <<requestLog, recorded, rejected>>
       ELSE CheckAndRecord(0)
    /\ UNCHANGED <<extractVars, matchVars, now, rateObs, fanVars, sanVars, queryVars,
                   streamVars, endpointVars, lateVars>>

\* The body of a Pixabay batch request has been read; the handler goes on.
BodyRead ==
    /\ inflight.body > 0
    /\ CheckAndRecord(1)
    /\ UNCHANGED <<extractVars, matchVars, now, rateObs, fanVars, sanVars, queryVars,
                   streamVars, endpointVars, lateVars>>

\* The searches of one accepted request have settled; the handler answers.
SearchesDone ==
    /\ inflight.search > 0
    /\ inflight' = [inflight EXCEPT !.search = @ - 1]
    /\ UNCHANGED <<coreVars, endpointVars, lateVars, recorded, rejected>>

ConcurrentNext == Arrive \/ BodyRead \/ SearchesDone \/ Tick

SpecConcurrent == ConcurrentInit /\ [][ConcurrentNext]_vars

\* The timestamps recorded for the client inside the window that ends at t.
InWindow(t) == {i \in 1..Len(recorded) : recorded[i] <= t /\ t - recorded[i] < RATE_WINDOW}

(* C23: whatever the interleaving of the concurrently handled requests,    *)
(* the number of timestamps recorded for the client inside any trailing    *)
(* RATE_WINDOW never exceeds RATE_LIMIT.                                   *)
C23_WindowNeverExceedsLimit ==
    \A k \in 0..(now \div TickLength) :
        Cardinality(InWindow(k * TickLength)) <= RATE_LIMIT

\* The limit is reached and a request is rejected while other requests of
\* the client are still being handled.
C23_Witness ==
    /\ Cardinality(InWindow(now)) = RATE_LIMIT
    /\ rejected >= 1
    /\ inflight.body >= 1 /\ inflight.search >= 1


----------------------------------------------------------------------------
(***************************************************************************)
(* The chat route's decision to search for images (app/api/chat/route.ts,  *)
(* second POST).  A topic is the sequence of its characters, so that       *)
(* String.prototype.includes is a search for a contiguous run.             *)
(***************************************************************************)

\* String.prototype.toLowerCase on the letters the topics use.
LowerChar(c) ==
    CASE c = "N" -> "n" [] c = "I" -> "i" [] c = "P" -> "p" [] c = "R" -> "r"
      [] OTHER -> c

toLowerCase(str) == [i \in 1..Len(str) |-> LowerChar(str[i])]

\* String.prototype.includes
includes(str, part) ==
    \E i \in 0..(Len(str) - Len(part)) : SubSeq(str, i + 1, i + Len(part)) = part

imageKeywords ==
    { <<"i","m","a","g","e">>,
      <<"i","m","a","g","e","s">>,
      <<"p","i","c","t","u","r","e">>,
      <<"p","i","c","t","u","r","e","s">>,
      <<"p","h","o","t","o">>,
      <<"p","h","o","t","o","s">>,
      <<"v","i","s","u","a","l">>,
      <<"v","i","s","u","a","l","s">>,
      <<"a","d","d"," ","i","m","a","g","e">>,
      <<"a","d","d"," ","i","m","a","g","e","s">>,
      <<"a","d","d"," ","p","i","c","t","u","r","e">>,
      <<"a","d","d"," ","p","i","c","t","u","r","e","s">>,
      <<"a","d","d"," ","p","h","o","t","o">>,
      <<"a","d","d"," ","p","h","o","t","o","s">>,
      <<"w","i","t","h"," ","i","m","a","g","e">>,
      <<"w","i","t","h"," ","i","m","a","g","e","s">>,
      <<"w","i","t","h"," ","p","i","c","t","u","r","e">>,
      <<"w","i","t","h"," ","p","i","c","t","u","r","e","s">>,
      <<"w","i","t","h"," ","p","h","o","t","o">>,
      <<"w","i","t","h"," ","p","h","o","t","o","s">>,
      <<"i","n","c","l","u","d","e"," ","i","m","a","g","e">>,
      <<"i","n","c","l","u","d","e"," ","i","m","a","g","e","s">>,
      <<"i","n","c","l","u","d","e"," ","p","i","c","t","u","r","e">>,
      <<"i","n","c","l","u","d","e"," ","p","i","c","t","u","r","e","s">>,
      <<"i","n","c","l","u","d","e"," ","p","h","o","t","o">>,
      <<"i","n","c","l","u","d","e"," ","p","h","o","t","o","s">>,
      <<"s","h","o","w"," ","i","m","a","g","e">>,
      <<"s","h","o","w"," ","i","m","a","g","e","s">>,
      <<"s","h","o","w"," ","p","i","c","t","u","r","e">>,
      <<"s","h","o","w"," ","p","i","c","t","u","r","e","s">>,
      <<"s","h","o","w"," ","p","h","o","t","o">>,
      <<"s","h","o","w"," ","p","h","o","t","o","s">>,
      <<"i","n","s","e","r","t"," ","i","m","a","g","e">>,
      <<"i","n","s","e","r","t"," ","i","m","a","g","e","s">>,
      <<"i","n","s","e","r","t"," ","p","i","c","t","u","r","e">>,
      <<"i","n","s","e","r","t"," ","p","i","c","t","u","r","e","s">>,
      <<"i","n","s","e","r","t"," ","p","h","o","t","o">>,
      <<"i","n","s","e","r","t"," ","p","h","o","t","o","s">>,
      <<"i","l","l","u","s","t","r","a","t","e">>,
      <<"i","l","l","u","s","t","r","a","t","i","o","n">>,
      <<"i","l","l","u","s","t","r","a","t","i","o","n","s">>,
      <<"v","i","s","u","a","l"," ","a","i","d">>,
      <<"v","i","s","u","a","l"," ","a","i","d","s">> }
ManualOne == <<"i","n","c","l","u","d","e"," ","t","h","i","s"," ","i","m","a","g","e"," ","i","n"," ","t","h","e"," ","p","r","e","s","e","n","t","a","t","i","o","n",":">>
ManualMany == <<"i","n","c","l","u","d","e"," ","t","h","e","s","e"," ","i","m","a","g","e","s"," ","i","n"," ","t","h","e"," ","p","r","e","s","e","n","t","a","t","i","o","n",":">>
NoImagesPlease == <<"n","o"," ","i","m","a","g","e","s"," ","p","l","e","a","s","e">>
Topics ==
    { <<"N","o"," ","i","m","a","g","e","s"," ","p","l","e","a","s","e">>,
      <<"s","o","l","a","r"," ","p","o","w","e","r",","," ","n","o"," ","i","m","a","g","e","s"," ","p","l","e","a","s","e">>,
      <<"s","o","l","a","r"," ","p","o","w","e","r">>,
      <<"s","o","l","a","r"," ","p","o","w","e","r"," ","w","i","t","h"," ","p","h","o","t","o","s">>,
      <<"s","o","l","a","r"," ","p","o","w","e","r"," ","i","n","c","l","u","d","e"," ","t","h","i","s"," ","i","m","a","g","e"," ","i","n"," ","t","h","e"," ","p","r","e","s","e","n","t","a","t","i","o","n",":"," ","u"," ","n","o"," ","i","m","a","g","e","s"," ","p","l","e","a","s","e">>,
      <<"R","o","m","e">> }

containsManualImageUrls(topic) ==
    \/ includes(toLowerCase(topic), ManualOne)
    \/ includes(toLowerCase(topic), ManualMany)

containsImageKeywords(topic) ==
    \E keyword \in imageKeywords : includes(toLowerCase(topic), toLowerCase(keyword))

forcedImageSearch(topic) == containsImageKeywords(topic) /\ ~containsManualImageUrls(topic)

shouldSearchImages(topic, autoSearchImages) ==
    (autoSearchImages \/ forcedImageSearch(topic)) /\ ~containsManualImageUrls(topic)

\* What the handler does about images: whether it called
\* searchImagesForPresentation, how many upstream searches it made, how many
\* image URLs it holds for the sanitizer, and which system prompt it sends.
ImageDecision(searched, calls, urls, prompt) ==
    [searched |-> searched, calls |-> calls, urls |-> urls, prompt |-> prompt]

\* The branch of POST from the manual-image test to the choice of the prompt.
\* req.search is what searchImagesForPresentation will do, req.direct what the
\* direct Wikimedia search of the main subject will do.
DecideImages(req) ==
    IF containsManualImageUrls(req.topic)
    THEN ImageDecision(FALSE, 0, 0, "original")
    ELSE IF shouldSearchImages(req.topic, req.autoSearchImages)
    THEN CASE req.search = "throws" -> ImageDecision(TRUE, 1, 0, "original")
           [] req.search = "images" -> ImageDecision(TRUE, 1, 1, "enhanced")
           [] OTHER ->
                IF req.imageSource = "wikimedia"
                THEN IF req.direct = "images"
                     THEN ImageDecision(TRUE, 2, 1, "original")
                     ELSE ImageDecision(TRUE, 2, 0, "original")
                ELSE ImageDecision(TRUE, 1, 0, "original")
    ELSE ImageDecision(FALSE, 0, 0, "original")

ChatInit ==
    /\ \E topic \in Topics, auto \in BOOLEAN, src \in {"pixabay", "wikimedia"},
          search \in {"images", "none", "throws"}, direct \in {"images", "none"} :
           chatReq = [topic |-> topic, autoSearchImages |-> auto, imageSource |-> src,
                      search |-> search, direct |-> direct]
    /\ chatOut = NoResponse
    /\ CoreIdle /\ EndpointIdle /\ ConcIdle /\ WikiIdle /\ HomeIdle /\ PagerIdle /\ FontIdle

ChatPost ==
    /\ chatOut = NoResponse
    /\ chatOut' = DecideImages(chatReq)
    /\ UNCHANGED <<coreVars, endpointVars, concVars, wikiVars, homeVars, pagerVars, fontVars, chatReq>>

SpecChat == ChatInit /\ [][ChatPost]_vars

ChatAnswered == chatOut # NoResponse

(* C24: when the prompt includes "no images please" and no images were     *)
(* attached by hand, the chat route performs no image search and adds no   *)
(* image URLs or suggestions to the prompt.                                *)
C24_NoImagesPleaseMeansNoSearch ==
    (/\ ChatAnswered
     /\ includes(toLowerCase(chatReq.topic), NoImagesPlease)
     /\ ~containsManualImageUrls(chatReq.topic))
        => (~chatOut.searched /\ chatOut.calls = 0 /\ chatOut.prompt = "original")


----------------------------------------------------------------------------
(***************************************************************************)
(* searchWikimediaImages (lib/wikimedia).  A keyword is the sequence of    *)
(* its words.  Every await of searchWithMethod is one step; what the       *)
(* Wikimedia API does at that call is chosen then.                         *)
(***************************************************************************)

\* The descriptors extractMainSubject removes; each is a whole word of the
\* keywords used here.
Descriptors == {"celebrating", "portrait", "silhouette", "against", "playing",
                "hitting", "raising", "receiving", "waving", "giving"}

RECURSIVE DropDescriptors(_)
DropDescriptors(words) ==
    IF words = <<>> THEN <<>>
    ELSE IF Head(words) \in Descriptors THEN DropDescriptors(Tail(words))
         ELSE <<Head(words)>> \o DropDescriptors(Tail(words))

\* "".split(' ') is [""], one word, so a keyword made of descriptors only
\* gives the empty main subject.
extractMainSubject(query) ==
    LET words == DropDescriptors(query)
    IN  IF Len(words) > 1 THEN SubSeq(words, 1, Min(3, Len(words))) ELSE words

\* The largest number of images one upstream call returns.
MaxImages == 3

WikiKeywords == { <<"rome">>, <<"solar", "power">>, <<"portrait">>,
                  <<"sachin", "tendulkar", "celebrating", "century", "lords">>,
                  <<"playing", "cricket">> }

\* params.limit: 0 stands for a request that leaves it out.
WikiLimits == {0, 1, 2}

WikiInit ==
    /\ \E k \in WikiKeywords, l \in WikiLimits : wikiParams = [keyword |-> k, limit |-> l]
    /\ wikiCalls = <<>>
    /\ wikiImages = 0
    /\ wikiPc = "file_namespace"
    /\ CoreIdle /\ EndpointIdle /\ ConcIdle /\ ChatIdle /\ HomeIdle /\ PagerIdle /\ FontIdle

\* A faulty chain that goes on to the next method whatever was found.
TryEveryMethod(method, found) ==
    /\ wikiPc' = CASE method = "file_namespace" -> "direct_keyword"
                   [] method = "direct_keyword" -> "category"
                   [] method = "category" -> "simplified"
                   [] OTHER -> "returned"
    /\ wikiImages' = found

\* What the code does once the images of one method are known: the next
\* method when there are none, the filtered and limited result otherwise.
\* Every image falls back into finalImages when none passes the relevance
\* threshold, so only the limit shortens the list.
AfterMethod(method, found) ==
    LET mainSubject == extractMainSubject(wikiParams.keyword)
        limit == IF wikiParams.limit = 0 THEN 10 ELSE wikiParams.limit
        next == CASE found > 0 -> "returned"
                  [] method = "file_namespace" -> "direct_keyword"
                  [] method = "direct_keyword" -> "category"
                  [] method = "category" ->
                        IF mainSubject # <<>> /\ mainSubject # wikiParams.keyword
                        THEN "simplified" ELSE "returned"
                  [] OTHER -> "returned"
    IN  /\ wikiPc' = next
        /\ wikiImages' = IF next = "returned" THEN Min(found, limit) ELSE found

\* The entry of the upstream call being made, with what the API answered.
UpstreamCall(outcome) ==
    [method  |-> wikiPc,
     keyword |-> IF wikiPc = "simplified" THEN extractMainSubject(wikiParams.keyword)
                 ELSE wikiParams.keyword,
     outcome |-> outcome]

\* One call of searchWithMethod: the fetch rejects or the body is not JSON
\* (the call throws, and so does searchWikimediaImages, which has no catch),
\* the response is not ok or holds no image, or it holds some images.
searchWithMethod ==
    /\ wikiPc \in {"file_namespace", "direct_keyword", "category", "simplified"}
    /\ \/ /\ wikiCalls' = Append(wikiCalls, UpstreamCall("threw"))
          /\ wikiPc' = "thrown"
          /\ UNCHANGED wikiImages
       \/ /\ wikiCalls' = Append(wikiCalls, UpstreamCall("none"))
          /\ AfterMethod(wikiPc, 0)
       \/ /\ wikiCalls' = Append(wikiCalls, UpstreamCall("images"))
          /\ \E found \in 1..MaxImages : AfterMethod(wikiPc, found)
    /\ UNCHANGED <<coreVars, endpointVars, concVars, chatVars, homeVars, pagerVars, fontVars, wikiParams>>

SpecWikimedia == WikiInit /\ [][searchWithMethod]_vars

MethodOrder == <<"file_namespace", "direct_keyword", "category", "simplified">>

WikiEnded == wikiPc \in {"returned", "thrown"}

\* The order of the methods, at most four calls, a later call only after
\* calls that returned no image, and an end after at least one call.
FallbackChain ==
    /\ Len(wikiCalls) <= 4
    /\ \A i \in 1..Len(wikiCalls) : wikiCalls[i].method = MethodOrder[i]
    /\ \A i \in 1..(Len(wikiCalls) - 1) : wikiCalls[i].outcome = "none"
    /\ Len(wikiCalls) = 4 => WikiEnded
    /\ WikiEnded => Len(wikiCalls) >= 1

(* C26 as stated: searchWikimediaImages tries its methods strictly in the  *)
(* order file-namespace, direct-keyword, category, simplified main         *)
(* subject, makes the next upstream call only when every earlier one       *)
(* returned no image, so makes between 1 and 4 upstream calls, and always  *)
(* ends with a result, possibly an empty one.                              *)
C26_FallbackChainEndsWithResult ==
    FallbackChain /\ (WikiEnded => wikiPc = "returned")

(* C26 as amended: the same order, condition and number of calls; the      *)
(* search ends with a result unless its latest upstream call threw, and    *)
(* then it rejects with that error without trying a later method.          *)
C26_FallbackChainEndsWithResultOrThrows ==
    /\ FallbackChain
    /\ WikiEnded =>
           (wikiPc = "thrown") = (wikiCalls[Len(wikiCalls)].outcome = "threw")
    /\ ~WikiEnded => \A i \in 1..Len(wikiCalls) : wikiCalls[i].outcome = "none"

\* The whole chain: three methods found nothing and the simplified search
\* of the main subject found the images that are returned.
C26_Witness ==
    /\ wikiPc = "returned" /\ Len(wikiCalls) = 4 /\ wikiImages > 0
    /\ wikiCalls[4].keyword # wikiParams.keyword

----------------------------------------------------------------------------
(* Properties of the suggested images (SpecMatch).                         *)

(* C27: for every slide, suggestedImages holds no image twice: no two      *)
(* entries have the same image id, even when the same image was returned   *)
(* by more than one search query.                                          *)
C27_NoImageSuggestedTwice ==
    MatchSucceeded =>
        \A i \in 1..Len(matchResp.slides) :
            LET suggested == matchResp.slides[i].suggestedImages
            IN  \A m, n \in 1..Len(suggested) :
                    suggested[m].id = suggested[n].id => m = n


----------------------------------------------------------------------------
(***************************************************************************)
(* The home page (app/page.tsx): the submit handler and the useObject      *)
(* hook of the AI SDK that runs the generation.  The hook sets isLoading   *)
(* at submit; it calls onFinish when the response stream closes, with an   *)
(* error when the streamed object does not fit the schema; it does not     *)
(* call onFinish when the request fails or when stop() aborts it.          *)
(***************************************************************************)

\* The largest number of generations submitted between two resets.
MaxSubmits == 2

HomeInit ==
    /\ chatInput = "" /\ apiKey \in {"", "key"}
    /\ isLoading = FALSE /\ isPreviewLoading = FALSE
    /\ currentTab = "code" /\ messages = 0 /\ isSettingsOpen = FALSE
    /\ lastEnd = "none" /\ lastToast = "none"
    /\ CoreIdle /\ EndpointIdle /\ ConcIdle /\ ChatIdle /\ WikiIdle /\ PagerIdle /\ FontIdle

homeRest == <<coreVars, endpointVars, concVars, chatVars, wikiVars, pagerVars, fontVars>>

\* handleSaveInputChange / setChatInput
handleSaveInputChange ==
    /\ \E value \in {"", "text"} : chatInput' = value
    /\ UNCHANGED <<homeRest, apiKey, isLoading, isPreviewLoading, currentTab, messages,
                   isSettingsOpen, lastEnd, lastToast>>

\* The settings dialog: onApiKeyChange and onClose.
onApiKeyChange ==
    /\ isSettingsOpen
    /\ \E value \in {"", "key"} : apiKey' = value
    /\ UNCHANGED <<homeRest, chatInput, isLoading, isPreviewLoading, currentTab, messages,
                   isSettingsOpen, lastEnd, lastToast>>

onOpenSettings ==
    /\ isSettingsOpen' = ~isSettingsOpen
    /\ UNCHANGED <<homeRest, chatInput, apiKey, isLoading, isPreviewLoading, currentTab,
                   messages, lastEnd, lastToast>>

onSelectedTabChange ==
    /\ \E tab \in {"code", "artifact"} : currentTab' = tab
    /\ UNCHANGED <<homeRest, chatInput, apiKey, isLoading, isPreviewLoading, messages,
                   isSettingsOpen, lastEnd, lastToast>>

resetUI ==
    /\ messages' = 0
    /\ chatInput' = ""
    /\ UNCHANGED <<homeRest, apiKey, isLoading, isPreviewLoading, currentTab,
                   isSettingsOpen, lastEnd, lastToast>>

handleSubmit ==
    /\ IF isLoading
       THEN \* stop(): the hook aborts the request and clears isLoading
            /\ isLoading' = FALSE
            /\ lastEnd' = "stopped"
            /\ UNCHANGED <<chatInput, apiKey, isPreviewLoading, currentTab, messages,
                           isSettingsOpen, lastToast>>
       ELSE IF chatInput = ""
       THEN /\ lastToast' = "enter a description"
            /\ UNCHANGED <<chatInput, apiKey, isLoading, isPreviewLoading, currentTab,
                           messages, isSettingsOpen, lastEnd>>
       ELSE IF apiKey = ""
       THEN /\ lastToast' = "API key is required"
            /\ isSettingsOpen' = TRUE
            /\ UNCHANGED <<chatInput, apiKey, isLoading, isPreviewLoading, currentTab,
                           messages, lastEnd>>
       ELSE /\ messages < 2 * MaxSubmits
            /\ isLoading' = TRUE
            /\ lastEnd' = "none"
            /\ messages' = messages + 2
            /\ chatInput' = ""
            /\ currentTab' = "code"
            /\ isPreviewLoading' = TRUE
            /\ lastToast' = "creating"
            /\ UNCHANGED <<apiKey, isSettingsOpen>>
    /\ UNCHANGED homeRest

\* The response stream closes and the hook calls onFinish.
onFinish ==
    /\ isLoading
    /\ isLoading' = FALSE
    /\ \E error \in BOOLEAN :
           IF error
           THEN /\ lastEnd' = "error"
                /\ UNCHANGED <<currentTab, isPreviewLoading>>
           ELSE /\ lastEnd' = "success"
                /\ currentTab' = "artifact"
                /\ isPreviewLoading' = FALSE
    /\ UNCHANGED <<homeRest, chatInput, apiKey, messages, isSettingsOpen, lastToast>>

\* The request fails (network error or an error status of /api/chat): the
\* hook clears isLoading and calls onError, which the page does not pass.
requestFails ==
    /\ isLoading
    /\ isLoading' = FALSE
    /\ lastEnd' = "error"
    /\ UNCHANGED <<homeRest, chatInput, apiKey, isPreviewLoading, currentTab, messages,
                   isSettingsOpen, lastToast>>

HomeNext ==
    \/ handleSaveInputChange \/ onApiKeyChange \/ onOpenSettings \/ onSelectedTabChange
    \/ resetUI \/ handleSubmit \/ onFinish \/ requestFails

SpecHome == HomeInit /\ [][HomeNext]_vars

\* A running generation ends: the stream closes or the request fails.
SpecHomeFair == SpecHome /\ WF_vars(onFinish \/ requestFails)

GenerationEnded == ~isLoading /\ lastEnd \in {"success", "error", "stopped"}

(* C28: after every submitted generation ends (successfully, with an error *)
(* or stopped by the user) the preview-loading flag set at submit is       *)
(* eventually reset to false.                                              *)
C28_PreviewLoadingEventuallyReset ==
    GenerationEnded ~> (isPreviewLoading = FALSE)


----------------------------------------------------------------------------
(***************************************************************************)
(* The Pixabay search UI (components/pixabay-search and the image dialog   *)
(* of the rich text editor; both hold the same searchImages).  The list    *)
(* results is modelled by the numbers of the pages whose hits it holds.    *)
(* The buttons are disabled while a call is awaiting its response.         *)
(***************************************************************************)

\* per_page of the request, and the factor of the hasMore test.
PerPage == 20

PagerQueries == {"cats", "dogs"}
TotalHitsChoices == {0, 15, 30, 50, 70}

\* The largest number of pages requested after one new search.
MaxRequests == 6

PagerInit ==
    /\ pagerQuery \in PagerQueries
    /\ totalHits \in TotalHitsChoices
    /\ page = 1 /\ pagerResults = <<>> /\ hasMore = FALSE
    /\ pagerCall = NoCall /\ requested = <<>>
    /\ CoreIdle /\ EndpointIdle /\ ConcIdle /\ ChatIdle /\ WikiIdle /\ HomeIdle /\ FontIdle

pagerRest == <<coreVars, endpointVars, concVars, chatVars, wikiVars, homeVars, fontVars>>

\* The page parameter of the request a call of searchImages sends.
RequestedPage(call) == IF call.reset THEN 1 ELSE call.page

\* searchImages up to its fetch: the call keeps the page state it was
\* created with.
searchImages(resetPage) ==
    /\ pagerQuery # ""
    /\ pagerCall = NoCall
    /\ pagerCall' = [reset |-> resetPage, page |-> page]
    /\ requested' = IF resetPage THEN <<1>> ELSE Append(requested, page)
    /\ UNCHANGED <<pagerRest, pagerQuery, totalHits, page, pagerResults, hasMore>>

\* handleSubmit of the search form
pagerSubmit == searchImages(TRUE)

loadMore ==
    /\ hasMore
    /\ Len(requested) < MaxRequests
    /\ searchImages(FALSE)

\* Whether the provider has hits on page p.
PageHasHits(p) == (p - 1) * PerPage < totalHits

\* The response arrives and is ok: the state updates after the await.
searchResponds ==
    /\ pagerCall # NoCall
    /\ LET p    == RequestedPage(pagerCall)
           hits == IF PageHasHits(p) THEN <<p>> ELSE <<>>
       IN  /\ p = 1 \/ PageHasHits(p)
           /\ IF pagerCall.reset
              THEN pagerResults' = hits /\ page' = 1
              ELSE pagerResults' = pagerResults \o hits /\ page' = page + 1
           /\ hasMore' = (totalHits > pagerCall.page * PerPage)
    /\ pagerCall' = NoCall
    /\ UNCHANGED <<pagerRest, pagerQuery, totalHits, requested>>

\* The fetch fails or the response is not ok: only the finally block runs.
searchFails ==
    /\ pagerCall # NoCall
    /\ pagerCall' = NoCall
    /\ UNCHANGED <<pagerRest, pagerQuery, totalHits, page, pagerResults, hasMore, requested>>

\* The user types another search term.
setQuery ==
    /\ pagerCall = NoCall
    /\ \E q \in PagerQueries, t \in TotalHitsChoices : pagerQuery' = q /\ totalHits' = t
    /\ pagerQuery' # pagerQuery
    /\ UNCHANGED <<pagerRest, page, pagerResults, hasMore, pagerCall, requested>>

PagerNext == pagerSubmit \/ loadMore \/ searchResponds \/ searchFails \/ setQuery

SpecPager == PagerInit /\ [][PagerNext]_vars

(* C29: in the Pixabay search UI, after pages 1..n have been loaded, a     *)
(* Load More action requests page n+1, so no page is ever requested and    *)
(* appended to the result list twice.                                      *)
C29_LoadMoreRequestsNextPage ==
    /\ \A i, j \in 1..Len(pagerResults) : pagerResults[i] = pagerResults[j] => i = j
    /\ (pagerCall # NoCall /\ ~pagerCall.reset)
           => RequestedPage(pagerCall) = Len(pagerResults) + 1


----------------------------------------------------------------------------
(***************************************************************************)
(* The font size commands (components/font-size-extension).  A font size   *)
(* is a number with its unit; NoFontSize is an attribute that is not set   *)
(* (null or undefined).                                                    *)
(***************************************************************************)

Px(n) == [n |-> n, unit |-> "px"]

SIZE_STEPS == << Px(12), Px(14), Px(16), Px(18), Px(20), Px(24), Px(30), Px(36),
                 Px(48), Px(60), Px(72) >>

defaultSize == Px(16)

\* parseInt of a size string: its leading number.
parseInt(size) == size.n

\* Array.prototype.indexOf, 0-based, -1 when absent: the strings are
\* compared whole, unit included.
indexOf(size) ==
    IF \E i \in 1..Len(SIZE_STEPS) : SIZE_STEPS[i] = size
    THEN (CHOOSE i \in 1..Len(SIZE_STEPS) : SIZE_STEPS[i] = size) - 1
    ELSE -1

\* SIZE_STEPS.findIndex(size => parseInt(size) > parseInt(currentFontSize))
findIndexLarger(current) ==
    LET hits == {i \in 1..Len(SIZE_STEPS) : parseInt(SIZE_STEPS[i]) > parseInt(current)}
    IN  IF hits = {} THEN -1 ELSE (CHOOSE i \in hits : \A j \in hits : i <= j) - 1

\* SIZE_STEPS.findIndex(size => parseInt(size) < parseInt(currentFontSize))
findIndexSmaller(current) ==
    LET hits == {i \in 1..Len(SIZE_STEPS) : parseInt(SIZE_STEPS[i]) < parseInt(current)}
    IN  IF hits = {} THEN -1 ELSE (CHOOSE i \in hits : \A j \in hits : i <= j) - 1

\* SIZE_STEPS[index] for a 0-based index; undefined outside the array.
StepAt(index) ==
    IF index >= 0 /\ index < Len(SIZE_STEPS) THEN SIZE_STEPS[index + 1] ELSE NoFontSize

\* currentAttrs.fontSize || this.options.defaultSize
currentFontSize(attr) == IF attr = NoFontSize THEN defaultSize ELSE attr

\* The size increaseFontSize sets.
IncreasedSize(attr) ==
    LET current      == currentFontSize(attr)
        currentIndex == indexOf(current)
        nextIndex    == IF currentIndex = -1 THEN findIndexLarger(current)
                        ELSE Min(currentIndex + 1, Len(SIZE_STEPS) - 1)
    IN  IF nextIndex = -1 THEN SIZE_STEPS[1] ELSE StepAt(nextIndex)

\* The size decreaseFontSize sets.
DecreasedSize(attr) ==
    LET current      == currentFontSize(attr)
        currentIndex == indexOf(current)
        prevIndex    == IF currentIndex = -1 THEN findIndexSmaller(current) - 1
                        ELSE Max(currentIndex - 1, 0)
    IN  IF prevIndex = -1 THEN SIZE_STEPS[1] ELSE StepAt(prevIndex)

\* The largest number of a font size of the selection.
MaxFontSize == 80

FontSizes == {[n |-> n, unit |-> u] : n \in 1..MaxFontSize, u \in {"px", "pt"}}

FontInit ==
    /\ fontSize \in FontSizes \cup {NoFontSize}
    /\ fontBefore = NoFontSize
    /\ fontCmd = "none"
    /\ CoreIdle /\ EndpointIdle /\ ConcIdle /\ ChatIdle /\ WikiIdle /\ HomeIdle /\ PagerIdle

fontRest == <<coreVars, endpointVars, concVars, chatVars, wikiVars, homeVars, pagerVars>>

increaseFontSize ==
    /\ fontSize' = IncreasedSize(fontSize)
    /\ fontBefore' = fontSize
    /\ fontCmd' = "increase"
    /\ UNCHANGED fontRest

decreaseFontSize ==
    /\ fontSize' = DecreasedSize(fontSize)
    /\ fontBefore' = fontSize
    /\ fontCmd' = "decrease"
    /\ UNCHANGED fontRest

FontNext == increaseFontSize \/ decreaseFontSize

SpecFont == FontInit /\ [][FontNext]_vars

StepNumbers == {parseInt(SIZE_STEPS[i]) : i \in 1..Len(SIZE_STEPS)}
SmallestStep == parseInt(SIZE_STEPS[1])
LargestStep == parseInt(SIZE_STEPS[Len(SIZE_STEPS)])

NextLargerStep(n) ==
    IF n >= LargestStep THEN LargestStep
    ELSE CHOOSE st \in StepNumbers : st > n /\ \A other \in StepNumbers : other > n => st <= other

NextSmallerStep(n) ==
    IF n <= SmallestStep THEN SmallestStep
    ELSE CHOOSE st \in StepNumbers : st < n /\ \A other \in StepNumbers : other < n => st >= other

(* C30: from any current font size, increaseFontSize and decreaseFontSize  *)
(* set a member of SIZE_STEPS: increase sets the next larger step (72px    *)
(* when at or above the maximum), decrease sets the next smaller step      *)
(* (12px when at or below the minimum), also when the current size is not  *)
(* one of the steps.                                                       *)
C30_FontSizeMovesOneStep ==
    LET before == parseInt(currentFontSize(fontBefore))
    IN  /\ fontCmd = "increase" => fontSize = Px(NextLargerStep(before))
        /\ fontCmd = "decrease" => fontSize = Px(NextSmallerStep(before))

============================================================================
